---- MODULE Spec2Model ----
(***************************************************************************)
(* Model of the Simple Agent Discord bot's session orchestration:          *)
(*   bot/commands/simple_agent_command.py  (dispatcher, batcher, arbiter)  *)
(*   bot/utils/file_manager.py             (artifact collector)            *)
(*   bot/websocket/client.py               (AgentLink client)              *)
(*   bot/core/bot_client.py                (bulk shutdown)                 *)
(* Every coroutine is cut at its await points: one action runs the code    *)
(* between two suspension points of the single-threaded event loop.        *)
(***************************************************************************)
EXTENDS Integers, Sequences, FiniteSets, TLC

VARIABLES
    active_sessions,  \* dict session_id -> ws client      (command.py:33)
    active_order,     \* the keys of active_sessions in the dict's (insertion) order
    session_threads,  \* dict session_id -> thread id      (command.py:36)
    file_managers,    \* dict session_id -> file manager   (command.py:39)
    file_batches,     \* dict session_id -> {files, task}  (command.py:42)
    tool_batches,     \* dict session_id -> {tools, task}  (command.py:45)
    clients,          \* every SimpleAgentWebSocketClient created so far
    fms,              \* every SessionFileManager created so far
    threads,          \* every thread created so far (its owner)
    tasks,            \* every flush task created by asyncio.create_task, per kind
    notifications,    \* batch notifications received by the chat platform, per kind
    arrived,          \* history: the batched events of each session, in arrival order
    lateArrival,      \* history: the (session, kind) pairs with an arrival after the timer fired
    cleanups,         \* every _cleanup_session invocation so far
    handlers,         \* every on_agent_finished / on_agent_error invocation so far
    starts,           \* every simple_agent_command invocation so far
    bulk,             \* the cleanup() coroutine of bot shutdown
    arbiters,         \* every on_waiting_for_input / _handle_user_input_request invocation
    messages,         \* every message posted on the chat platform by someone else than this bot
    emitted,          \* every command emitted to AgentLink (sio.emit)
    returns,          \* history: what each direct call of a request method of a link returned
    remote,           \* the agent server's files: path -> size of the content in bytes
    storage,          \* the files in the temp directory (tempfile.mkstemp)
    finalize,         \* every call of send_files_to_thread so far, with its locals
    sent,             \* the messages send_files_to_thread posted to the thread
    updater           \* a thread as ThreadManager.send_thread_update sees it, and its calls

vars == <<active_sessions, active_order, session_threads, file_managers, file_batches,
          tool_batches, clients, fms, threads, tasks, notifications, arrived,
          lateArrival, cleanups, handlers, starts, bulk, arbiters, messages,
          emitted, returns, remote, storage, finalize, sent, updater>>

sessionVars == <<active_sessions, active_order, session_threads, file_managers>>
batchVars == <<file_batches, tool_batches, tasks, notifications, arrived, lateArrival>>
arbVars == <<arbiters, messages, emitted, returns>>
finVars == <<remote, storage, finalize, sent>>

----------------------------------------------------------------------------
\* Bounds of the model.
NumUsers == 2
MaxItems == 3
MaxTerminalEvents == 1
MaxMessages == 2
MaxInputRequests == 1
\* USER_INPUT_TIMEOUT of the environment, in seconds (the default is 600).
user_input_timeout == 2
MaxStarts == 2
MaxShutdownItems == 1
MaxFiles == 11
MaxBig == 2
MaxFailures == 1
SmallSize == 1024

Users == 1..NumUsers
Kinds == {"file", "tool"}
None == 0

\* Python dict operations.
Put(d, k, v) == [x \in (DOMAIN d) \cup {k} |-> IF x = k THEN v ELSE d[x]]
Del(d, k) == [x \in (DOMAIN d) \ {k} |-> d[x]]
EmptyDict == [x \in {} |-> None]
\* The key order of a dict: a new key goes to the end, a key that is written
\* again keeps its place, a deleted key leaves.
PutKey(order, k) ==
    IF \E i \in 1..Len(order) : order[i] = k THEN order ELSE Append(order, k)
DelKey(order, k) == SelectSeq(order, LAMBDA x : x # k)

\* Preview thresholds of the summary notification.
FilePreview == 10
ToolPreview == 8

Min(a, b) == IF a < b THEN a ELSE b

----------------------------------------------------------------------------
\* Flush tasks (asyncio.Task of send_after_delay).
\*   sleeping : at `await asyncio.sleep(delay)`
\*   posting  : inside _send_batched_*_notification at `await thread.send(embed=embed)`
\*   done     : the coroutine returned
\*   cancelled: Task.cancel() was called before it finished
NotDone(kind, t) == tasks[kind][t].st \in {"sleeping", "posting"}

NewTask(s, kind, th) == [sid |-> s, kind |-> kind, thread |-> th, st |-> "sleeping",
                         content |-> <<>>, delivered |-> FALSE]

\* Mutant: the outstanding timer is left running when a new item is added.
CancelIfPending_Never(ts, t) == ts

\* batch_info['task'].cancel() guarded by `batch_info['task'] and not batch_info['task'].done()`
CancelIfPending(ts, t) ==
    IF t # None /\ ts[t].st \in {"sleeping", "posting"}
    THEN [ts EXCEPT ![t].st = "cancelled"]
    ELSE ts

\* The text of a batch notification: one item alone, or the first k items and
\* the number of items left out.
Summary(items, k) ==
    [count |-> Len(items),
     shown |-> SubSeq(items, 1, Min(Len(items), k)),
     more  |-> IF Len(items) > k THEN Len(items) - k ELSE 0]

----------------------------------------------------------------------------
\* Batched events are tagged with their arrival number within their kind, so
\* that two events carrying the same payload stay distinguishable.
NumArrived == Len(arrived.file) + Len(arrived.tool)
ItemTag(kind) == Len(arrived[kind]) + 1

\* History only: an item of (s, kind) arrives although the timer armed by the
\* previous item of (s, kind) is no longer sleeping.
IsLate(batches, s, kind) ==
    /\ \E i \in 1..Len(arrived[kind]) : arrived[kind][i].sid = s
    /\ \/ s \notin DOMAIN batches
       \/ batches[s].task = None
       \/ tasks[kind][batches[s].task].st # "sleeping"

NoteArrival(batches, s, kind, item, path) ==
    /\ arrived' = [arrived EXCEPT ![kind] = Append(@, [sid |-> s, item |-> item,
                                                       path |-> path])]
    /\ lateArrival' = IF IsLate(batches, s, kind)
                      THEN lateArrival \cup {<<s, kind>>} ELSE lateArrival

\* Mutant: a fixed-rate window; an item that finds a timer still sleeping
\* joins its window, the timer is neither cancelled nor replaced.
AddToBatch_FixedWindow(batches, s, kind, th, item) ==
    LET b0 == IF s \in DOMAIN batches THEN batches[s]
              ELSE [items |-> <<>>, task |-> None]
        ts1 == CancelIfPending(tasks[kind], b0.task)
        tid == Len(tasks[kind]) + 1
    IN  IF b0.task # None /\ tasks[kind][b0.task].st = "sleeping"
        THEN [batches |-> Put(batches, s, [b0 EXCEPT !.items = Append(@, item)]),
              tasks   |-> tasks]
        ELSE [batches |-> Put(batches, s, [items |-> Append(b0.items, item), task |-> tid]),
              tasks   |-> [tasks EXCEPT ![kind] = Append(ts1, NewTask(s, kind, th))]]

\* Mutant: the new timer is installed next to the outstanding one.
AddToBatch_KeepsTimer(batches, s, kind, th, item) ==
    LET b0 == IF s \in DOMAIN batches THEN batches[s]
              ELSE [items |-> <<>>, task |-> None]
        tid == Len(tasks[kind]) + 1
    IN  [batches |-> Put(batches, s, [items |-> Append(b0.items, item), task |-> tid]),
         tasks   |-> [tasks EXCEPT ![kind] = Append(@, NewTask(s, kind, th))]]

\* _add_file_to_batch / _add_tool_to_batch: no await inside, so one step.
\* Returns the new (batches, tasks) pair.
AddToBatch(batches, s, kind, th, item) ==
    LET b0 == IF s \in DOMAIN batches THEN batches[s]
              ELSE [items |-> <<>>, task |-> None]
        ts1 == CancelIfPending(tasks[kind], b0.task)
        tid == Len(tasks[kind]) + 1
    IN  [batches |-> Put(batches, s, [items |-> Append(b0.items, item), task |-> tid]),
         tasks   |-> [tasks EXCEPT ![kind] = Append(ts1, NewTask(s, kind, th))]]

\* add_file: append the record unless an equal record is tracked already.
\* The record's type is the default of the parameter file_type; no caller
\* passes another one.
BaseName(path) == path[Len(path)]
FileInfo(path) == [path |-> path, type |-> "file", name |-> BaseName(path)]
InSeq(x, sq) == \E i \in 1..Len(sq) : sq[i] = x

\* The path on_file_created tracks for an event that carries neither a path
\* nor a name (simple_agent_command.py:351-353); a path is the sequence of
\* its components.
UnknownFile == <<"Unknown file">>

\* Mutant: add_file without the membership test.
add_file_Always(fm, path) ==
    [fm EXCEPT !.created_files = Append(@, FileInfo(path))]

add_file(fm, path) ==
    IF InSeq(FileInfo(path), fm.created_files) THEN fm
    ELSE [fm EXCEPT !.created_files = Append(@, FileInfo(path))]

\* file_created event on client c: on_file_created, then _add_file_to_batch.
\* wsid is the event's session_id field (None when absent).
OnFileCreated(c, path, wsid) ==
    LET cl == clients[c]
        fm0 == IF wsid # None THEN [fms[cl.fm] EXCEPT !.issued = @ \cup {wsid}]
               ELSE fms[cl.fm]
        fm1 == IF wsid # None /\ fm0.session_id # wsid
               THEN [fm0 EXCEPT !.session_id = wsid] ELSE fm0
        item == ItemTag("file")
        r == AddToBatch(file_batches, cl.sid, "file", cl.thread, item)
    IN  /\ cl.connected
        /\ fms' = [fms EXCEPT ![cl.fm] = add_file(fm1, path)]
        /\ file_batches' = r.batches
        /\ tasks' = r.tasks
        /\ NoteArrival(file_batches, cl.sid, "file", item, path)
        /\ UNCHANGED <<sessionVars, tool_batches, clients, threads, notifications,
                       cleanups, handlers, starts, bulk, arbVars, finVars, updater>>

\* tool_call event on client c: on_tool_call, then _add_tool_to_batch.
OnToolCall(c) ==
    LET cl == clients[c]
        item == ItemTag("tool")
        r == AddToBatch(tool_batches, cl.sid, "tool", cl.thread, item)
    IN  /\ cl.connected
        /\ tool_batches' = r.batches
        /\ tasks' = r.tasks
        /\ NoteArrival(tool_batches, cl.sid, "tool", item, <<>>)
        /\ UNCHANGED <<sessionVars, file_batches, clients, fms, threads,
                       notifications, cleanups, handlers, starts, bulk, arbVars, finVars, updater>>

----------------------------------------------------------------------------
\* The flush task send_after_delay, cut at its awaits.
BatchesOf(kind) == IF kind = "file" THEN file_batches ELSE tool_batches
PreviewOf(kind) == IF kind = "file" THEN FilePreview ELSE ToolPreview

\* The sleep ends: _send_batched_*_notification runs up to `await thread.send`.
\* The embed is built from the list as it is now.
TimerFires(kind, t) ==
    LET s == tasks[kind][t].sid
        batches == BatchesOf(kind)
    IN  /\ tasks[kind][t].st = "sleeping"
        /\ tasks' = IF s \notin DOMAIN batches \/ batches[s].items = <<>>
                    THEN [tasks EXCEPT ![kind][t].st = "done"]
                    ELSE [tasks EXCEPT ![kind][t].st = "posting",
                                       ![kind][t].content = batches[s].items]
        /\ UNCHANGED <<sessionVars, file_batches, tool_batches, clients, fms, threads,
                       notifications, arrived, lateArrival, cleanups, handlers,
                       starts, bulk, arbVars, finVars, updater>>

\* The chat platform receives the message; the task is still suspended in
\* thread.send, waiting for the answer.
PostDelivered(kind, t) ==
    /\ tasks[kind][t].st = "posting"
    /\ ~tasks[kind][t].delivered
    /\ tasks' = [tasks EXCEPT ![kind][t].delivered = TRUE]
    /\ notifications' = [notifications EXCEPT ![kind] = Append(@,
           [sid |-> tasks[kind][t].sid, kind |-> kind, thread |-> tasks[kind][t].thread,
            task |-> t, items |-> tasks[kind][t].content,
            text |-> Summary(tasks[kind][t].content, PreviewOf(kind))])]
    /\ UNCHANGED <<sessionVars, file_batches, tool_batches, clients, fms, threads,
                   arrived, lateArrival, cleanups, handlers, starts, bulk, arbVars, finVars, updater>>

\* thread.send returns: `del self.file_batches[session_id]` (a KeyError is
\* caught by `except Exception`), and the coroutine ends.
PostReturns(kind, t) ==
    LET s == tasks[kind][t].sid
    IN  /\ tasks[kind][t].st = "posting"
        /\ tasks[kind][t].delivered
        /\ tasks' = [tasks EXCEPT ![kind][t].st = "done"]
        /\ file_batches' = IF kind = "file" THEN Del(file_batches, s)
                           ELSE file_batches
        /\ tool_batches' = IF kind = "tool" THEN Del(tool_batches, s)
                           ELSE tool_batches
        /\ UNCHANGED <<sessionVars, clients, fms, threads, notifications, arrived,
                       lateArrival, cleanups, handlers, starts, bulk, arbVars, finVars, updater>>

\* thread.send raises before the platform took the message: the handler of
\* `except Exception` logs, the batch entry stays as it is.
PostFails(kind, t) ==
    /\ tasks[kind][t].st = "posting"
    /\ ~tasks[kind][t].delivered
    /\ tasks' = [tasks EXCEPT ![kind][t].st = "done"]
    /\ UNCHANGED <<sessionVars, file_batches, tool_batches, clients, fms, threads,
                   notifications, arrived, lateArrival, cleanups, handlers,
                   starts, bulk, arbVars, finVars, updater>>

----------------------------------------------------------------------------
\* The dispatcher's state as one value, so that the code between two awaits
\* can be written as a function from state to state.
DState ==
    [active_sessions |-> active_sessions, active_order |-> active_order,
     session_threads |-> session_threads,
     file_managers |-> file_managers, file_batches |-> file_batches,
     tool_batches |-> tool_batches, clients |-> clients, fms |-> fms,
     tasks |-> tasks, cleanups |-> cleanups]

Commit(d) ==
    /\ active_sessions' = d.active_sessions
    /\ active_order' = d.active_order
    /\ session_threads' = d.session_threads
    /\ file_managers' = d.file_managers
    /\ file_batches' = d.file_batches
    /\ tool_batches' = d.tool_batches
    /\ clients' = d.clients
    /\ fms' = d.fms
    /\ tasks' = d.tasks
    /\ cleanups' = d.cleanups

BatchTask(batches, s) == IF s \in DOMAIN batches THEN batches[s].task ELSE None

\* Mutant: teardown that empties both batch maps instead of removing its key.
CleanupRest_ClearsBatchMaps(d, s) ==
    [d EXCEPT
       !.session_threads = Del(@, s),
       !.fms = IF s \in DOMAIN d.file_managers
               THEN [@ EXCEPT ![d.file_managers[s]].created_files = <<>>] ELSE @,
       !.file_managers = Del(@, s),
       !.tasks = [file |-> CancelIfPending(@.file, BatchTask(d.file_batches, s)),
                  tool |-> CancelIfPending(@.tool, BatchTask(d.tool_batches, s))],
       !.file_batches = EmptyDict,
       !.tool_batches = EmptyDict]

\* _cleanup_session, lines 550-569: everything after the active_sessions block.
CleanupRest(d, s) ==
    [d EXCEPT
       !.session_threads = Del(@, s),
       !.fms = IF s \in DOMAIN d.file_managers
               THEN [@ EXCEPT ![d.file_managers[s]].created_files = <<>>] ELSE @,
       !.file_managers = Del(@, s),
       !.tasks = [file |-> CancelIfPending(@.file, BatchTask(d.file_batches, s)),
                  tool |-> CancelIfPending(@.tool, BatchTask(d.tool_batches, s))],
       !.file_batches = Del(@, s),
       !.tool_batches = Del(@, s)]

\* Mutant: the key is taken out of active_sessions before the link is
\* closed, so the call is suspended with the key in two maps only.
CleanupBegin_DeletesFirst(d, s, caller) ==
    IF s \in DOMAIN d.active_sessions /\ d.clients[d.active_sessions[s]].connected
    THEN [d EXCEPT !.active_sessions = Del(@, s),
                   !.active_order = DelKey(@, s),
                   !.cleanups = Append(@, [sid |-> s, pc |-> "disconnecting",
                                            client |-> d.active_sessions[s],
                                            caller |-> caller])]
    ELSE LET d1 == [d EXCEPT !.active_sessions = Del(@, s),
                             !.active_order = DelKey(@, s),
                             !.cleanups = Append(@, [sid |-> s, pc |-> "done",
                                                     client |-> None, caller |-> caller])]
         IN  CleanupRest(d1, s)

\* A call of _cleanup_session(s), up to its first suspension.  ws_client.disconnect()
\* suspends only when the client is connected (client.py:198).
CleanupBegin(d, s, caller) ==
    IF s \in DOMAIN d.active_sessions /\ d.clients[d.active_sessions[s]].connected
    THEN [d EXCEPT !.cleanups = Append(@, [sid |-> s, pc |-> "disconnecting",
                                            client |-> d.active_sessions[s],
                                            caller |-> caller])]
    ELSE LET d1 == [d EXCEPT !.active_sessions = Del(@, s),
                             !.active_order = DelKey(@, s),
                             !.cleanups = Append(@, [sid |-> s, pc |-> "done",
                                                     client |-> None, caller |-> caller])]
         IN  CleanupRest(d1, s)

\* sio.disconnect() returns; the link's disconnect event handler has run
\* (client.py:69-74).  `del self.active_sessions[session_id]` raises KeyError
\* when the key is gone, and the rest of the function is skipped.
CleanupAfterDisconnect(d, i) ==
    LET s == d.cleanups[i].sid
        c == d.cleanups[i].client
        d1 == [d EXCEPT !.clients[c].connected = FALSE, !.clients[c].status = "idle"]
    IN  IF s \in DOMAIN d1.active_sessions
        THEN CleanupRest([d1 EXCEPT !.active_sessions = Del(@, s),
                                    !.active_order = DelKey(@, s),
                                    !.cleanups[i].pc = "done"], s)
        ELSE [d1 EXCEPT !.cleanups[i].pc = "raised"]

\* The flush tasks still at their sleep.
Scheduled(ts) ==
    UNION {{<<kind, t>> : t \in {u \in 1..Len(ts[kind]) : ts[kind][u].st = "sleeping"}} :
              kind \in Kinds}

\* cleanup(): `for session_id in list(...): await self._cleanup_session(session_id)`
\* from key number i on, up to the next suspension.  When the loop is over
\* the registry and the scheduled flushes of that moment are noted (history).
RECURSIVE BulkLoop(_, _, _)
BulkLoop(d, keys, i) ==
    IF i > Len(keys)
    THEN [d |-> d, bulk |-> [pc |-> "done", keys |-> keys, idx |-> i, inv |-> None,
                             registry |-> DOMAIN d.active_sessions,
                             scheduled |-> Scheduled(d.tasks)]]
    ELSE LET d1 == CleanupBegin(d, keys[i], "bulk")
             inv == Len(d1.cleanups)
         IN  IF d1.cleanups[inv].pc = "disconnecting"
             THEN [d |-> d1, bulk |-> [pc |-> "awaiting", keys |-> keys, idx |-> i,
                                       inv |-> inv, registry |-> {},
                                       scheduled |-> {}]]
             ELSE BulkLoop(d1, keys, i + 1)

\* The start whose call of _cleanup_session was number inv, after that call
\* ended as `how`: returned, or raised KeyError (from line 192 into the inner
\* handler, from line 200 into the outer one).
StartAfterCleanup(st, inv, how) ==
    IF st.inv # inv \/ st.pc \notin {"cleanup1", "cleanup2"} THEN st
    ELSE IF how = "done" THEN [st EXCEPT !.pc = "gaveup"]
    ELSE IF st.pc = "cleanup1" THEN [st EXCEPT !.pc = "failing2"]
    ELSE [st EXCEPT !.pc = "aborted"]

\* A suspended _cleanup_session resumes; its caller goes on in the same step.
CleanupResume(i) ==
    LET d1 == CleanupAfterDisconnect(DState, i)
        r == BulkLoop(d1, bulk.keys, bulk.idx + 1)
    IN  /\ cleanups[i].pc = "disconnecting"
        /\ IF cleanups[i].caller = "bulk"
           THEN IF d1.cleanups[i].pc = "raised"
                THEN Commit(d1) /\ bulk' = [bulk EXCEPT !.pc = "raised"]
                ELSE Commit(r.d) /\ bulk' = r.bulk
           ELSE Commit(d1) /\ UNCHANGED bulk
        /\ starts' = [j \in DOMAIN starts |->
                         StartAfterCleanup(starts[j], i, d1.cleanups[i].pc)]
        /\ UNCHANGED <<threads, notifications, arrived, lateArrival, handlers, arbVars, finVars, updater>>

----------------------------------------------------------------------------
\* agent_finished / agent_error on client c (client.py:154-168): the status is
\* set, then on_agent_finished / on_agent_error runs up to `await thread.send`.
TerminalStatus(ev) == IF ev = "agent_finished" THEN "idle" ELSE "error"

\* `files` are the names handed to send_files_to_thread, none before the call.
StartHandler(c, ev) ==
    /\ clients[c].connected
    /\ clients' = [clients EXCEPT ![c].status = TerminalStatus(ev)]
    /\ handlers' = Append(handlers, [client |-> c, ev |-> ev, pc |-> "notify",
                                     inv |-> None, files |-> <<>>])
    /\ UNCHANGED <<sessionVars, file_batches, tool_batches, fms, threads, tasks,
                   notifications, arrived, lateArrival, cleanups, starts, bulk, arbVars, finVars, updater>>

TerminalEvent(c, ev) ==
    /\ Len(handlers) < MaxTerminalEvents
    /\ StartHandler(c, ev)

----------------------------------------------------------------------------
\* The calls of send_files_to_thread (file_manager.py:161-273), one record of
\* locals per call.
\*   h      : the terminal handler that made the call, None for a direct call
\*   listed : the names the summary was built from, at the call's entry
\*   k, cur : the position of the download loop in created_files and the
\*            file_info it holds
NoPost == [kind |-> "none", files |-> <<>>]
NoFile == [path |-> <<>>, type |-> "none", name |-> "none"]
FinIdle ==
    [pc |-> "idle", fm |-> None, h |-> None, k |-> 0, cur |-> NoFile, listed |-> <<>>,
     temp_files |-> <<>>, failed_files |-> <<>>,
     files_to_cleanup |-> <<>>, post |-> NoPost, zip |-> None, zip_size |-> 0,
     result |-> "none", failures |-> 0, made |-> 0, requests |-> <<>>]

Return(f, res) == [f EXCEPT !.pc = "returned", !.result = res]

\* The tracked files as listed in the summary.
TrackedNames(fm) ==
    [i \in 1..Len(fms[fm].created_files) |-> fms[fm].created_files[i].name]

\* send_files_to_thread of file manager fm, called by h, up to its first
\* suspension: with nothing tracked it returns True at once, else the summary
\* is built and its post awaited (lines 171-193).
send_files_to_thread(fm, h) ==
    IF fms[fm].created_files = <<>>
    THEN Return([FinIdle EXCEPT !.fm = fm, !.h = h], "ok")
    ELSE [FinIdle EXCEPT !.fm = fm, !.h = h, !.pc = "summary",
                         !.listed = TrackedNames(fm)]

\* The notice is posted and the message delay is over: with tracked files the
\* handler goes into send_files_to_thread, up to the post of the summary,
\* else straight into _cleanup_session.
HandlerNotified(h) ==
    LET c == handlers[h].client
        d1 == CleanupBegin(DState, clients[c].sid, "handler")
    IN  /\ handlers[h].pc = "notify"
        /\ IF Len(fms[clients[c].fm].created_files) > 0
           THEN /\ handlers' = [handlers EXCEPT
                                   ![h].pc = "files",
                                   ![h].files = TrackedNames(clients[c].fm)]
                /\ finalize' = Append(finalize, send_files_to_thread(clients[c].fm, h))
                /\ UNCHANGED <<sessionVars, file_batches, tool_batches, clients, fms,
                               tasks, cleanups>>
           ELSE /\ handlers' = [handlers EXCEPT ![h].pc = "cleanup",
                                                ![h].inv = Len(d1.cleanups)]
                /\ Commit(d1)
                /\ UNCHANGED finalize
        /\ UNCHANGED <<threads, notifications, arrived, lateArrival, starts, bulk, arbVars,
                       remote, storage, sent, updater>>

\* The calls of send_files_to_thread made by handler h that have returned.
ReturnedTo(h) ==
    {i \in 1..Len(finalize) : finalize[i].h = h /\ finalize[i].pc = "returned"}

\* What the step that left call record f does to the caller. When the call
\* has returned to a terminal handler, the handler goes on in the same step
\* into _cleanup_session, up to its first suspension (lines 421-423,
\* 433-435); a call still suspended, and a direct call, leave the dispatcher
\* as it is.
HandlerFilesSent(f) ==
    IF f.pc = "returned" /\ f.h # None
    THEN LET c == handlers[f.h].client
             d1 == CleanupBegin(DState, clients[c].sid, "handler")
         IN  /\ handlers' = [handlers EXCEPT ![f.h].pc = "cleanup",
                                             ![f.h].inv = Len(d1.cleanups)]
             /\ Commit(d1)
    ELSE UNCHANGED <<sessionVars, file_batches, tool_batches, clients, fms, tasks,
                     cleanups, handlers>>

----------------------------------------------------------------------------
\* send_files_to_thread (file_manager.py:161-273), cut at its awaits.
\*   summary   : at thread.send(embed=summary_embed)
\*   delay     : at asyncio.sleep(file_delay) after the summary
\*   download  : at download_file_content of tracked file number k
\*   nofiles   : at thread.send of the "failed to download any files" notice
\*   posting   : at thread.send of the attachment(s) or of the archive notice
\*   reporting : at thread.send of the failed-files notice
\*   returned  : the call is over, `result` is its return value
max_file_size == 25 * 1024 * 1024
MaxAttachments == 10

RECURSIVE SumSizes(_)
SumSizes(tf) == IF tf = <<>> THEN 0 ELSE tf[1].size + SumSizes(Tail(tf))
Names(tf) == [i \in 1..Len(tf) |-> tf[i].name]
TempPaths(tf) == [i \in 1..Len(tf) |-> tf[i].temp]

\* Mutant: the individual batch is limited to fewer than ten attachments.
DeliveryShape_FewerThanTen(n, total) ==
    IF n = 1 /\ total < max_file_size THEN "single"
    ELSE IF n < MaxAttachments /\ total < max_file_size THEN "multi"
    ELSE "zip"

\* Lines 226, 232, 240: which branch delivers n staged files of `total` bytes.
DeliveryShape(n, total) ==
    IF n = 1 /\ total < max_file_size THEN "single"
    ELSE IF n <= MaxAttachments /\ total < max_file_size THEN "multi"
    ELSE "zip"

cleanup_temp_files(st, file_paths) == {x \in st : ~InSeq(x, file_paths)}

\* The sizes a deflated archive of `total` bytes may have (line 246): small
\* when the content compresses; when it does not, `total` and the headers of
\* the archive, which reach the limit also from a total below it.
ZipSizes(total) == {SmallSize, IF total >= max_file_size THEN total ELSE max_file_size}

\* The name mkstemp gives its next file: no two files get the same one.
RECURSIVE TotalMade(_)
TotalMade(calls) == IF calls = <<>> THEN 0 ELSE calls[1].made + TotalMade(Tail(calls))
NextTemp == TotalMade(finalize) + 1

\* Lines 215-253 after the download loop, up to the next await.
\*   sized  : os.path.getsize succeeds for every staged file (line 220)
\*   zipped : create_zip_file returns the archive ("ok"), or returns None
\*            after mkstemp made the file ("partial") or before ("none")
AfterLoop(f, st, id, sized, zipped, zsize) ==
    LET n == Len(f.temp_files)
        total == SumSizes(f.temp_files)
        f1 == [f EXCEPT !.files_to_cleanup = TempPaths(f.temp_files)]
        shape == DeliveryShape(n, total)
    IN  IF n = 0 THEN [f |-> [f EXCEPT !.pc = "nofiles"], st |-> st]
        ELSE IF ~sized
        THEN [f |-> Return([f EXCEPT !.failures = @ + 1], "failed"), st |-> st]
        ELSE IF shape = "single"
        THEN [f |-> [f1 EXCEPT !.pc = "posting",
                               !.post = [kind |-> "single",
                                         files |-> <<f.temp_files[1].name>>]],
              st |-> st]
        ELSE IF shape = "multi"
        THEN [f |-> [f1 EXCEPT !.pc = "posting",
                               !.post = [kind |-> "multi", files |-> Names(f.temp_files)]],
              st |-> st]
        ELSE IF zipped = "ok"
        THEN [f |-> [f1 EXCEPT !.pc = "posting", !.made = @ + 1, !.zip = id,
                               !.zip_size = zsize,
                               !.files_to_cleanup = Append(@, id),
                               !.post = IF zsize < max_file_size
                                        THEN [kind |-> "zip", files |-> Names(f.temp_files)]
                                        ELSE [kind |-> "toolarge", files |-> <<>>]],
              st |-> st \cup {id}]
        ELSE [f |-> [f1 EXCEPT !.pc = "posting", !.failures = @ + 1,
                               !.made = IF zipped = "partial" THEN @ + 1 ELSE @,
                               !.post = [kind |-> "zipfailed", files |-> <<>>]],
              st |-> IF zipped = "partial" THEN st \cup {id} ELSE st]

\* send_files_to_thread is called directly for file manager fm.
FinalizeCall(fm) ==
    /\ finalize = <<>>
    /\ finalize' = <<send_files_to_thread(fm, None)>>
    /\ UNCHANGED <<sessionVars, batchVars, clients, fms, threads, cleanups, handlers,
                   starts, bulk, arbVars, updater, remote, storage, sent>>

\* download_file_content of tracked file k of fm begins: the content URL is
\* built from the identifier the manager holds at that moment (lines 69-76).
\* issued is history: the identifiers the handled events had carried by then.
ContentRequest(fm, k) ==
    [path |-> fms[fm].created_files[k].path, key |-> fms[fm].session_id,
     issued |-> fms[fm].issued]

\* `for file_info in self.created_files` takes item number k of the list as
\* it is at that moment. For the path "Unknown file" download_file_content
\* returns None before any request (lines 65-67): the name joins
\* failed_files and the loop takes the next item without a suspension. For
\* any other path the download is awaited; with no item left the loop is
\* over and the code runs on to its next await (lines 199-217).
RECURSIVE LoopStep(_, _, _, _, _, _, _)
LoopStep(f, st, k, id, sized, zipped, zsize) ==
    IF k > Len(fms[f.fm].created_files)
    THEN AfterLoop(f, st, id, sized, zipped, zsize)
    ELSE LET info == fms[f.fm].created_files[k]
         IN  IF info.path = UnknownFile
             THEN LoopStep([f EXCEPT !.k = k, !.cur = info,
                                     !.failed_files = Append(@, info.name)],
                           st, k + 1, id, sized, zipped, zsize)
             ELSE [f |-> [f EXCEPT !.pc = "download", !.k = k, !.cur = info,
                                   !.requests = Append(@, ContentRequest(f.fm, k))],
                   st |-> st]

\* thread.send of the summary of call i returns: the summary is in the
\* thread and the call sleeps for the file delay (lines 193-195).
SummaryPosted(i) ==
    /\ finalize[i].pc = "summary"
    /\ sent' = Append(sent, [kind |-> "summary", files |-> finalize[i].listed])
    /\ finalize' = [finalize EXCEPT ![i].pc = "delay"]
    /\ UNCHANGED <<sessionVars, batchVars, clients, fms, threads, cleanups, handlers,
                   starts, bulk, arbVars, updater, remote, storage>>

\* The file delay of call i is over: the download loop begins (line 201) and
\* runs to the first download it has to await; with none, to the notice that
\* no file could be downloaded.
FileDelayOver(i) ==
    LET r == LoopStep(finalize[i], storage, 1, NextTemp, TRUE, "ok", SmallSize)
    IN  /\ finalize[i].pc = "delay"
        /\ finalize' = [finalize EXCEPT ![i] = r.f]
        /\ HandlerFilesSent(r.f)
        /\ UNCHANGED <<threads, notifications, arrived, lateArrival, starts, bulk, arbVars,
                       updater, remote, storage, sent>>

\* thread.send raises: the outer `except Exception` returns False.
SummaryFails(i) ==
    /\ finalize[i].pc = "summary"
    /\ finalize' = [finalize EXCEPT ![i] = Return(@, "failed")]
    /\ HandlerFilesSent(Return(finalize[i], "failed"))
    /\ UNCHANGED <<threads, notifications, arrived, lateArrival, starts, bulk, arbVars,
                   updater, remote, storage, sent>>

\* How the download and the staging of one file can end.
Outcomes == {"staged", "nocontent", "halfstaged"}

\* What the download of file_info made of call f and of the temp directory.
Staged(f, st, outcome) ==
    LET id == NextTemp
    IN  IF outcome = "staged"
        THEN [f |-> [f EXCEPT !.made = @ + 1,
                              !.temp_files = Append(@, [temp |-> id, name |-> f.cur.name,
                                                        size |-> remote[f.cur.path]])],
              st |-> st \cup {id}]
        ELSE [f |-> [f EXCEPT !.failures = @ + 1,
                              !.made = IF outcome = "halfstaged" THEN @ + 1 ELSE @,
                              !.failed_files = Append(@, f.cur.name)],
              st |-> IF outcome = "nocontent" THEN st ELSE st \cup {id}]

\* download_file_content of the current file of call i is over,
\* create_temp_file follows without a suspension (lines 205-213).
\*   staged     : content received, temp file written
\*   nocontent  : no content (status, transport error, a path the server
\*                does not hold), or create_temp_file fails before mkstemp
\*                made the file
\*   halfstaged : content received, mkstemp made the file, writing it
\*                raises (lines 106-116)
\* The loop goes on with the next item of the list; after the last one the
\* code runs on to its next await.
FileDownloaded(i, outcome) ==
    LET r1 == Staged(finalize[i], storage, outcome)
    IN  /\ finalize[i].pc = "download"
        /\ outcome # "nocontent" => finalize[i].cur.path \in DOMAIN remote
        /\ \E sized \in BOOLEAN, zipped \in {"ok", "partial", "none"},
              zsize \in ZipSizes(SumSizes(r1.f.temp_files)) :
              LET r == LoopStep(r1.f, r1.st, finalize[i].k + 1,
                                TotalMade([finalize EXCEPT ![i] = r1.f]) + 1,
                                sized, zipped, zsize)
              IN  /\ r.f.failures <= MaxFailures
                  /\ finalize' = [finalize EXCEPT ![i] = r.f]
                  /\ storage' = r.st
                  /\ HandlerFilesSent(r.f)
        /\ UNCHANGED <<threads, notifications, arrived, lateArrival, starts, bulk, arbVars,
                       updater, remote, sent>>

\* The "failed to download any files" notice is posted, or posting it
\* raises: False is returned either way (lines 215-217, 271-273).
NoFilesPosted(i, ok) ==
    /\ finalize[i].pc = "nofiles"
    /\ sent' = IF ok THEN Append(sent, [kind |-> "nofiles", files |-> <<>>]) ELSE sent
    /\ finalize' = [finalize EXCEPT ![i] = Return(@, "failed")]
    /\ HandlerFilesSent(Return(finalize[i], "failed"))
    /\ UNCHANGED <<threads, notifications, arrived, lateArrival, starts, bulk, arbVars,
                   updater, remote, storage>>

\* The delivery message is posted: the failed-files notice follows if there
\* is one to post, else `finally` cleans up and True is returned.
DeliveryPosted(i) ==
    /\ finalize[i].pc = "posting"
    /\ sent' = Append(sent, finalize[i].post)
    /\ IF finalize[i].failed_files # <<>>
       THEN /\ finalize' = [finalize EXCEPT ![i].pc = "reporting"]
            /\ UNCHANGED storage
       ELSE /\ finalize' = [finalize EXCEPT ![i] = Return(@, "ok")]
            /\ storage' = cleanup_temp_files(storage, finalize[i].files_to_cleanup)
    /\ HandlerFilesSent(finalize'[i])
    /\ UNCHANGED <<threads, notifications, arrived, lateArrival, starts, bulk, arbVars,
                   updater, remote>>

\* Posting the delivery message raises: `finally`, then the outer handler.
DeliveryFails(i) ==
    /\ finalize[i].pc = "posting"
    /\ finalize' = [finalize EXCEPT ![i] = Return(@, "failed")]
    /\ storage' = cleanup_temp_files(storage, finalize[i].files_to_cleanup)
    /\ HandlerFilesSent(Return(finalize[i], "failed"))
    /\ UNCHANGED <<threads, notifications, arrived, lateArrival, starts, bulk, arbVars,
                   updater, remote, sent>>

\* The failed-files notice is posted (lines 256-262), or posting it raises.
Reported(i, ok) ==
    /\ finalize[i].pc = "reporting"
    /\ sent' = IF ok THEN Append(sent, [kind |-> "failed", files |-> finalize[i].failed_files])
               ELSE sent
    /\ finalize' = [finalize EXCEPT ![i] = Return(@, IF ok THEN "ok" ELSE "failed")]
    /\ storage' = cleanup_temp_files(storage, finalize[i].files_to_cleanup)
    /\ HandlerFilesSent(finalize'[i])
    /\ UNCHANGED <<threads, notifications, arrived, lateArrival, starts, bulk, arbVars,
                   updater, remote>>

----------------------------------------------------------------------------
\* No call of send_thread_update has been made; the thread is empty.
\*   calls    : where each call of send_thread_update is ("checking",
\*              "warning", "sending", "returned")
\*   count    : the number of messages the thread holds
\*   posts    : history, what the calls posted ("warning" / "update")
\*   results  : history, what the calls returned ("message" / "None")
UpdaterIdle == [calls |-> <<>>, count |-> 0, posts |-> <<>>, results |-> <<>>]

NoFinalize ==
    /\ remote = EmptyDict
    /\ storage = {}
    /\ finalize = <<>>
    /\ sent = <<>>

----------------------------------------------------------------------------
\* The debounced batcher of one running session.
BatchPaths == {<<"output", "a.txt">>}

NewClient(s, th, fm, conn, status) ==
    [sid |-> s, thread |-> th, fm |-> fm, connected |-> conn, status |-> status]
\* issued is history: the server-issued identifiers of the events handled.
NewFileManager(s) == [session_id |-> s, created_files |-> <<>>, issued |-> {}]

BulkIdle == [pc |-> "idle", keys |-> <<>>, idx |-> 0, inv |-> None,
             registry |-> {}, scheduled |-> {}]

InitBatch ==
    /\ active_sessions = [s \in {1} |-> 1]
    /\ active_order = <<1>>
    /\ session_threads = [s \in {1} |-> 1]
    /\ file_managers = [s \in {1} |-> 1]
    /\ clients = <<NewClient(1, 1, 1, TRUE, "running")>>
    /\ fms = <<NewFileManager(1)>>
    /\ threads = <<1>>
    /\ file_batches = EmptyDict
    /\ tool_batches = EmptyDict
    /\ tasks = [file |-> <<>>, tool |-> <<>>]
    /\ notifications = [file |-> <<>>, tool |-> <<>>]
    /\ arrived = [file |-> <<>>, tool |-> <<>>]
    /\ lateArrival = {}
    /\ cleanups = <<>>
    /\ handlers = <<>>
    /\ starts = <<>>
    /\ bulk = BulkIdle
    /\ arbiters = <<>>
    /\ messages = <<>>
    /\ emitted = <<>>
    /\ returns = <<>>
    /\ NoFinalize
    /\ updater = UpdaterIdle

\* One terminal event is handled here; two handlers side by side are
\* SpecTerminal's.
NextBatch ==
    \/ \E c \in 1..Len(clients), p \in BatchPaths :
          NumArrived < MaxItems /\ OnFileCreated(c, p, None)
    \/ \E c \in 1..Len(clients) : NumArrived < MaxItems /\ OnToolCall(c)
    \/ \E kind \in Kinds : \E t \in 1..Len(tasks[kind]) : TimerFires(kind, t)
    \/ \E kind \in Kinds : \E t \in 1..Len(tasks[kind]) : PostDelivered(kind, t)
    \/ \E kind \in Kinds : \E t \in 1..Len(tasks[kind]) : PostReturns(kind, t)
    \/ \E kind \in Kinds : \E t \in 1..Len(tasks[kind]) : PostFails(kind, t)
    \/ \E c \in 1..Len(clients), ev \in {"agent_finished", "agent_error"} :
          handlers = <<>> /\ StartHandler(c, ev)
    \/ \E h \in 1..Len(handlers) : HandlerNotified(h)
    \/ \E i \in 1..Len(finalize) : SummaryPosted(i)
    \/ \E i \in 1..Len(finalize) : FileDelayOver(i)
    \/ \E i \in 1..Len(finalize) : SummaryFails(i)
    \/ \E i \in 1..Len(finalize), outcome \in Outcomes :
          FileDownloaded(i, outcome)
    \/ \E i \in 1..Len(finalize), ok \in BOOLEAN : NoFilesPosted(i, ok)
    \/ \E i \in 1..Len(cleanups) : CleanupResume(i)

SpecBatch == InitBatch /\ [][NextBatch]_vars

----------------------------------------------------------------------------
\* Vocabulary of the batcher claims.
ArrivedItems(s, kind) ==
    LET mine == SelectSeq(arrived[kind], LAMBDA r : r.sid = s)
    IN  [i \in 1..Len(mine) |-> mine[i].item]

TasksOf(s, kind) == {t \in 1..Len(tasks[kind]) : tasks[kind][t].sid = s}
NotifsOf(s, kind) == {i \in 1..Len(notifications[kind]) : notifications[kind][i].sid = s}
LastTaskOf(s, kind) ==
    IF TasksOf(s, kind) = {} THEN None
    ELSE CHOOSE t \in TasksOf(s, kind) : \A u \in TasksOf(s, kind) : u <= t
NoPendingFlush(s, kind) == \A t \in TasksOf(s, kind) : ~NotDone(kind, t)
\* Teardown cancelled the timer of the last item while it was still sleeping.
TimerDiscarded(s, kind) ==
    /\ LastTaskOf(s, kind) # None
    /\ tasks[kind][LastTaskOf(s, kind)].st = "cancelled"
    /\ tasks[kind][LastTaskOf(s, kind)].content = <<>>
TornDown(s) == \E i \in 1..Len(cleanups) : cleanups[i].sid = s
\* The flush armed by the last item was cancelled before the platform had
\* received its notification: in its sleep, or in flight.
FlushCancelled(s, kind) ==
    /\ LastTaskOf(s, kind) # None
    /\ tasks[kind][LastTaskOf(s, kind)].st = "cancelled"
    /\ ~tasks[kind][LastTaskOf(s, kind)].delivered
\* The post of the flush armed by the last item raised.
PostFailed(s, kind) ==
    /\ LastTaskOf(s, kind) # None
    /\ tasks[kind][LastTaskOf(s, kind)].st = "done"
    /\ tasks[kind][LastTaskOf(s, kind)].content # <<>>
    /\ ~tasks[kind][LastTaskOf(s, kind)].delivered

\* C1 as stated: N >= 1 file_created events of a session, each arriving before
\* the delay since the previous one has elapsed, end in exactly one file
\* notification, which holds all N items in arrival order.
C1_ExactlyOneFlush ==
    \A s \in Users :
        (/\ Len(ArrivedItems(s, "file")) >= 1
         /\ <<s, "file">> \notin lateArrival
         /\ NoPendingFlush(s, "file"))
        => /\ Cardinality(NotifsOf(s, "file")) = 1
           /\ \A i \in NotifsOf(s, "file") :
                 notifications.file[i].items = ArrivedItems(s, "file")

\* C1 amended: such a burst never ends in more than one file notification,
\* and a notification of it holds all N items in arrival order; it ends in
\* exactly one unless teardown of the session cancelled the flush before the
\* platform had received the notification (in its sleep or in flight) or
\* the post of the notification raised: then it ends in none.
C1_OneFlushUnlessTornDown ==
    \A s \in Users :
        <<s, "file">> \notin lateArrival =>
           /\ Cardinality(NotifsOf(s, "file")) <= 1
           /\ \A i \in NotifsOf(s, "file") :
                 /\ notifications.file[i].items = ArrivedItems(s, "file")
                 /\ notifications.file[i].text.shown =
                       SubSeq(ArrivedItems(s, "file"), 1,
                              Min(FilePreview, Len(ArrivedItems(s, "file"))))
           /\ (/\ Len(ArrivedItems(s, "file")) >= 1
               /\ NoPendingFlush(s, "file"))
              => /\ (FlushCancelled(s, "file") \/ PostFailed(s, "file"))
                       => NotifsOf(s, "file") = {}
                 /\ ~(FlushCancelled(s, "file") \/ PostFailed(s, "file"))
                       => Cardinality(NotifsOf(s, "file")) = 1
                 /\ FlushCancelled(s, "file") => TornDown(s)

\* A burst of two file_created events was flushed as one notification.
C1_Witness ==
    /\ Len(ArrivedItems(1, "file")) = 2
    /\ <<1, "file">> \notin lateArrival
    /\ ~TornDown(1)
    /\ NoPendingFlush(1, "file")
    /\ Cardinality(NotifsOf(1, "file")) = 1
    /\ \A i \in NotifsOf(1, "file") : Len(notifications.file[i].items) = 2

\* C2 as stated: while the session is not torn down, under every interleaving
\* of arrivals, timer and posting step, every batched item is in at most one
\* emitted notification, none is lost (it is still pending or was emitted),
\* and every notification lists its items in arrival order.
PendingItems(s, kind) ==
    IF s \in DOMAIN BatchesOf(kind) THEN BatchesOf(kind)[s].items ELSE <<>>
Increasing(sq) == \A i, j \in 1..Len(sq) : i < j => sq[i] < sq[j]
C2_NoLossNoDuplicate ==
    \A s \in Users, kind \in Kinds :
        ~TornDown(s) =>
           /\ \A i, j \in NotifsOf(s, kind) :
                 i # j => \A x \in 1..Len(notifications[kind][i].items) :
                             ~InSeq(notifications[kind][i].items[x],
                                    notifications[kind][j].items)
           /\ \A x \in 1..Len(ArrivedItems(s, kind)) :
                 \/ InSeq(ArrivedItems(s, kind)[x], PendingItems(s, kind))
                 \/ \E i \in NotifsOf(s, kind) :
                       InSeq(ArrivedItems(s, kind)[x], notifications[kind][i].items)
           /\ \A i \in NotifsOf(s, kind) : Increasing(notifications[kind][i].items)

----------------------------------------------------------------------------
\* The input arbiter: on_waiting_for_input and _handle_user_input_request.
dispVars == <<sessionVars, file_batches, tool_batches, fms, threads, tasks,
              notifications, arrived, lateArrival, cleanups, handlers, starts, bulk,
              finVars, updater>>

\* Timeout of the other-author listener (line 481).
OtherTimeout == 1
Elsewhere == 0

\* A bot.wait_for task: armed, or done with a message (result), or done with
\* TimeoutError (timeout).  Idle stands for "no listener of this invocation".
\* `left` is the time left until the timeout, in seconds.
Idle == [st |-> "idle", msg |-> None, left |-> 0]
Armed(timeout) == [st |-> "armed", msg |-> None, left |-> timeout]
IsDone(l) == l.st \in {"result", "timeout"}

\* One iteration of `while True` up to `await asyncio.wait(...)`: both
\* listeners are created anew, each with its full timeout.
Rearm(a) ==
    [a EXCEPT !.pc = "waiting",
              !.auth = Armed(user_input_timeout),
              !.other = Armed(OtherTimeout)]

\* Mutant: the authorized-author predicate without the channel test.
check_AnyChannel(m, a) ==
    /\ m.author = clients[a.client].sid
    /\ ~m.bot

\* The two predicates handed to bot.wait_for (lines 459-474).
check(m, a) ==
    /\ m.channel = clients[a.client].thread
    /\ m.author = clients[a.client].sid
    /\ ~m.bot
other_user_check(m, a) ==
    /\ m.channel = clients[a.client].thread
    /\ m.author # clients[a.client].sid
    /\ ~m.bot

\* waiting_for_input on client c (client.py:171-177), then on_waiting_for_input
\* up to `await thread.send(embed=embed)`.
StartArbiter(c) ==
    /\ clients[c].connected
    /\ clients' = [clients EXCEPT ![c].status = "waiting_input"]
    /\ arbiters' = Append(arbiters, [client |-> c, pc |-> "prompting", auth |-> Idle,
                                     other |-> Idle, waited |-> 0])
    /\ UNCHANGED <<dispVars, messages, emitted, returns>>

WaitingForInputEvent(c) ==
    /\ Len(arbiters) < MaxInputRequests
    /\ StartArbiter(c)

\* The question is posted and the message delay is over:
\* _handle_user_input_request starts and arms its first pair of listeners.
PromptPosted(i) ==
    /\ arbiters[i].pc = "prompting"
    /\ arbiters' = [arbiters EXCEPT ![i] = Rearm(@)]
    /\ UNCHANGED <<dispVars, clients, messages, emitted, returns>>

\* Somebody posts a message.  The library hands it to every armed listener
\* whose predicate accepts it; each such wait_for task is done with it.
Hear(a, m, id) ==
    IF a.pc # "waiting" THEN a
    ELSE [a EXCEPT !.auth = IF @.st = "armed" /\ check(m, a)
                             THEN [@ EXCEPT !.st = "result", !.msg = id] ELSE @,
                   !.other = IF @.st = "armed" /\ other_user_check(m, a)
                              THEN [@ EXCEPT !.st = "result", !.msg = id] ELSE @]

InWait(a) == a.pc \in {"waiting", "accepting", "rejecting"}

MessagePosted(author, channel, bot) ==
    LET m == [author |-> author, channel |-> channel, bot |-> bot]
        id == Len(messages) + 1
    IN  /\ Len(messages) < MaxMessages
        /\ arbiters' = [i \in DOMAIN arbiters |-> Hear(arbiters[i], m, id)]
        /\ messages' = Append(messages,
              [author |-> author, channel |-> channel, bot |-> bot,
               during |-> {i \in DOMAIN arbiters :
                              arbiters[i].pc \in {"waiting", "rejecting"}},
               heard  |-> {i \in DOMAIN arbiters : Hear(arbiters[i], m, id) # arbiters[i]},
               accepted |-> 0, rejected |-> 0])
        /\ UNCHANGED <<dispVars, clients, emitted, returns>>

\* A wait_for task runs into its timeout: it is done with TimeoutError.
ListenerTimeout(i, w) ==
    /\ arbiters[i].pc = "waiting"
    /\ arbiters[i][w].st = "armed"
    /\ arbiters[i][w].left = 0
    /\ arbiters' = [arbiters EXCEPT ![i][w].st = "timeout"]
    /\ UNCHANGED <<dispVars, clients, messages, emitted, returns>>

\* A request method that does not look at `connected` before it emits.
LinkCall_NoGuard(em, c, cmd, arg, emit) ==
    IF emit = "ok"
    THEN [em |-> Append(em, [client |-> c, cmd |-> cmd, arg |-> arg]),
          ret |-> "True", link |-> clients[c]]
    ELSE [em |-> em, ret |-> "False", link |-> clients[c]]

\* run_agent, stop_agent and send_user_input of link c (client.py:201-276)
\* have one shape: False when not connected; else sio.emit, which goes out
\* (emit = "ok") or raises (emit = "error", caught: False).  The result is
\* what was emitted, the value returned and the fields of the link.
LinkCall(em, c, cmd, arg, emit) ==
    IF ~clients[c].connected
    THEN [em |-> em, ret |-> "False", link |-> clients[c]]
    ELSE IF emit = "ok"
    THEN [em |-> Append(em, [client |-> c, cmd |-> cmd, arg |-> arg]),
          ret |-> "True", link |-> clients[c]]
    ELSE [em |-> em, ret |-> "False", link |-> clients[c]]

\* ws_client.send_user_input (client.py:254-276): emits only when connected,
\* and nothing when sio.emit raises.
send_user_input(em, c, content, emit) == LinkCall(em, c, "user_input", content, emit).em

\* Mutant: the loop `for task in pending: task.cancel()` is left out, the
\* listener that has not yielded stays armed while the branch runs.
ArbiterWake_KeepsPending(i, w) ==
    LET a == arbiters[i]
        l == a[w]
        quiet == [a EXCEPT ![w] = Idle]
    IN  /\ a.pc = "waiting"
        /\ IsDone(l)
        /\ IF l.st = "timeout"
           THEN /\ arbiters' = [arbiters EXCEPT ![i] = Rearm(a)]
                /\ UNCHANGED <<messages, emitted, returns>>
           ELSE IF messages[l.msg].author = clients[a.client].sid
           THEN /\ \E emit \in {"ok", "error"} :
                      emitted' = send_user_input(emitted, a.client, l.msg, emit)
                /\ UNCHANGED returns
                /\ messages' = [messages EXCEPT ![l.msg].accepted = @ + 1]
                /\ arbiters' = [arbiters EXCEPT ![i] = [quiet EXCEPT !.pc = "accepting"]]
           ELSE /\ messages' = [messages EXCEPT ![l.msg].rejected = @ + 1]
                /\ arbiters' = [arbiters EXCEPT ![i] = [quiet EXCEPT !.pc = "rejecting"]]
                /\ UNCHANGED <<emitted, returns>>
        /\ UNCHANGED <<dispVars, clients>>

\* asyncio.wait returns.  The listeners still pending are cancelled, one of
\* the done ones is taken by done.pop() (w), the others are dropped.
\*   TimeoutError of the taken one: `except asyncio.TimeoutError: continue`
\*   authorized author: send_user_input, whose result is ignored, then the
\*                      acknowledgement
\*   anyone else: the rejection
ArbiterWake(i, w) ==
    LET a == arbiters[i]
        l == a[w]
        quiet == [a EXCEPT !.auth = Idle, !.other = Idle]
    IN  /\ a.pc = "waiting"
        /\ IsDone(l)
        /\ IF l.st = "timeout"
           THEN /\ arbiters' = [arbiters EXCEPT ![i] = Rearm(a)]
                /\ UNCHANGED <<messages, emitted, returns>>
           ELSE IF messages[l.msg].author = clients[a.client].sid
           THEN /\ \E emit \in {"ok", "error"} :
                      emitted' = send_user_input(emitted, a.client, l.msg, emit)
                /\ UNCHANGED returns
                /\ messages' = [messages EXCEPT ![l.msg].accepted = @ + 1]
                /\ arbiters' = [arbiters EXCEPT ![i] = [quiet EXCEPT !.pc = "accepting"]]
           ELSE /\ messages' = [messages EXCEPT ![l.msg].rejected = @ + 1]
                /\ arbiters' = [arbiters EXCEPT ![i] = [quiet EXCEPT !.pc = "rejecting"]]
                /\ UNCHANGED <<emitted, returns>>
        /\ UNCHANGED <<dispVars, clients>>

\* The reaction and the acknowledgement are posted: `break`.
AcceptDone(i) ==
    /\ arbiters[i].pc = "accepting"
    /\ arbiters' = [arbiters EXCEPT ![i].pc = "resolved"]
    /\ UNCHANGED <<dispVars, clients, messages, emitted, returns>>

\* add_reaction or thread.send raises: `except Exception: continue`.
AcceptFails(i) ==
    /\ arbiters[i].pc = "accepting"
    /\ arbiters' = [arbiters EXCEPT ![i] = Rearm(@)]
    /\ UNCHANGED <<dispVars, clients, messages, emitted, returns>>

\* The rejection branch ends, after the notice was shown for its 10 seconds
\* or with an exception of add_reaction or thread.send: the loop goes on.
RejectDone(i) ==
    /\ arbiters[i].pc = "rejecting"
    /\ arbiters' = [arbiters EXCEPT ![i] = Rearm(@)]
    /\ UNCHANGED <<dispVars, clients, messages, emitted, returns>>

\* A second passes.  A due timer and a completed wait are served first.
\* `waited` is the time since the first listeners were armed, counted up to
\* one second past the authorized-input timeout.
Elapse(a) ==
    IF ~InWait(a) THEN a
    ELSE [a EXCEPT !.waited = Min(@ + 1, user_input_timeout + 1),
                   !.auth.left = IF a.pc = "waiting" THEN @ - 1 ELSE @,
                   !.other.left = IF a.pc = "waiting" THEN @ - 1 ELSE @]
Tick ==
    /\ \E i \in DOMAIN arbiters : InWait(arbiters[i])
    /\ \A i \in DOMAIN arbiters :
          arbiters[i].pc = "waiting" =>
             /\ arbiters[i].auth.st = "armed" /\ arbiters[i].auth.left > 0
             /\ arbiters[i].other.st = "armed" /\ arbiters[i].other.left > 0
    /\ arbiters' = [i \in DOMAIN arbiters |-> Elapse(arbiters[i])]
    /\ UNCHANGED <<dispVars, clients, messages, emitted, returns>>

InitArbiter == InitBatch

\* The messages tried: the session owner (user 1) and somebody else (user 2)
\* in the session's thread (thread 1), the owner in another channel, and
\* another bot in the thread.
MessageKinds ==
    {[author |-> 1, channel |-> 1, bot |-> FALSE],
     [author |-> 2, channel |-> 1, bot |-> FALSE],
     [author |-> 1, channel |-> Elsewhere, bot |-> FALSE],
     [author |-> 2, channel |-> 1, bot |-> TRUE]}

\* One input request is under way; requests that follow one another are
\* taken up by SpecAgain.
NextArbiter ==
    \/ \E c \in 1..Len(clients) : arbiters = <<>> /\ StartArbiter(c)
    \/ \E i \in 1..Len(arbiters) : PromptPosted(i)
    \/ \E m \in MessageKinds :
          Len(arbiters) > 0 /\ MessagePosted(m.author, m.channel, m.bot)
    \/ \E i \in 1..Len(arbiters), w \in {"auth", "other"} : ListenerTimeout(i, w)
    \/ \E i \in 1..Len(arbiters), w \in {"auth", "other"} : ArbiterWake(i, w)
    \/ \E i \in 1..Len(arbiters) : AcceptDone(i)
    \/ \E i \in 1..Len(arbiters) : AcceptFails(i)
    \/ \E i \in 1..Len(arbiters) : RejectDone(i)
    \/ Tick

SpecArbiter == InitArbiter /\ [][NextArbiter]_vars

----------------------------------------------------------------------------
\* Vocabulary of the arbiter claims.
Authorized(m, a) ==
    /\ m.channel = clients[a.client].thread
    /\ m.author = clients[a.client].sid
    /\ ~m.bot
Forwarded(c, id) ==
    \E k \in 1..Len(emitted) :
        /\ emitted[k].cmd = "user_input"
        /\ emitted[k].client = c
        /\ emitted[k].arg = id
Emits(c, cmd) == {k \in 1..Len(emitted) : emitted[k].client = c /\ emitted[k].cmd = cmd}
\* The arbiter is suspended in asyncio.wait with two fresh listeners.
Listening(a) == a.pc = "waiting" /\ a.auth.st = "armed" /\ a.other.st = "armed"
Holds(a, id) == a.pc = "waiting" /\ (a.auth.msg = id \/ a.other.msg = id)

\* C3 as stated: a message of the authorized user posted in the thread during
\* the wait always ends the wait: it is forwarded and the loop stops, so the
\* arbiter is never again listening after such a message, whatever other
\* authors post before it, with it or after it.  Stated for the runs in which
\* no accept branch has run yet, so that none can have failed.
C3_AuthorizedEndsWait ==
    \A i \in DOMAIN arbiters :
        \A id \in DOMAIN messages :
            (Authorized(messages[id], arbiters[i]) /\ i \in messages[id].during)
            => /\ (\A fw \in DOMAIN messages : messages[fw].accepted = 0)
                     => ~Listening(arbiters[i])
               /\ arbiters[i].pc = "resolved" =>
                     \E fw \in DOMAIN messages :
                        /\ Authorized(messages[fw], arbiters[i])
                        /\ Forwarded(arbiters[i].client, fw)

\* C4 as stated: when the authorized-input timeout has passed since the wait
\* began and no authorized message arrived, the arbiter is TimedOut: the stop
\* command was sent exactly once and teardown ran exactly once.
C4_TimesOut ==
    \A i \in DOMAIN arbiters :
        (/\ arbiters[i].waited > user_input_timeout
         /\ ~\E id \in DOMAIN messages :
               Authorized(messages[id], arbiters[i]) /\ i \in messages[id].during)
        => /\ arbiters[i].pc = "timedout"
           /\ Cardinality(Emits(arbiters[i].client, "stop_agent")) = 1
           /\ Cardinality({k \in 1..Len(cleanups) :
                             cleanups[k].sid = clients[arbiters[i].client].sid}) = 1

\* C5 as stated: every human message taken by a listener of a waiting arbiter
\* gets exactly one branch, accept or reject: never two, and one as soon as
\* the arbiter has acted on the round that took it.
C5_ExactlyOneBranch ==
    \A id \in DOMAIN messages :
        /\ messages[id].accepted + messages[id].rejected <= 1
        /\ \A i \in messages[id].heard :
              ~Holds(arbiters[i], id)
              => messages[id].accepted + messages[id].rejected = 1

\* C6: whatever is emitted as user_input is the content of a message posted
\* in the session's thread by the session's user, who is not a bot.
C6_OnlyAuthorizedForwarded ==
    \A k \in 1..Len(emitted) :
        emitted[k].cmd = "user_input" =>
            LET m == messages[emitted[k].arg]
                cl == clients[emitted[k].client]
            IN  m.channel = cl.thread /\ m.author = cl.sid /\ ~m.bot

\* An authorized message was forwarded although another author's message of
\* the same wait was taken and rejected.
C6_Witness ==
    /\ \E k \in 1..Len(emitted) : emitted[k].cmd = "user_input"
    /\ \E id \in DOMAIN messages :
          messages[id].author # 1 /\ messages[id].rejected = 1

----------------------------------------------------------------------------
\* Session start: simple_agent_command, cut at its awaits.
\*   creating   : past the duplicate check, at defer / channel.create_thread
\*   adding     : the thread exists, at thread.add_user
\*   announcing : has its thread, at thread.send / followup.send
\*   connecting : registered, at ws_client.connect() of attempt number `attempt`
\*   retrying   : at initial_msg.edit of attempt number `attempt` (line 182)
\*   retrydelay : at asyncio.sleep(retry_delay) of that attempt (line 183)
\*   failing    : at thread.send of the failure notice of line 191
\*   failing2   : at thread.send of the failure notice of line 199
\*   cleanup1, cleanup2 : in _cleanup_session called at line 192 / line 200
\*   started    : run_agent was sent
\*   invalid, rejected, nothread, aborted, gaveup : the ways a start ends early
\* History kept per start: connects (calls of connect), retries (retry notices
\* posted), fnotices (failure notices posted), raised (Notifier calls that
\* raised), inv (its call of _cleanup_session).
max_retries == 3
default_max_steps == 20
default_auto_steps == 10

\* An optional argument is <<>> (not given) or <<value>>.
OrDefault(opt, dflt) == IF opt = <<>> THEN dflt ELSE opt[1]

\* A validation whose lower limit of max_steps is off by one.
ValidSteps_ZeroAllowed(max_steps, auto_steps) ==
    /\ ~(max_steps < 0 \/ max_steps > 100)
    /\ ~(auto_steps < 0 \/ auto_steps > max_steps)

ValidSteps(max_steps, auto_steps) ==
    /\ ~(max_steps <= 0 \/ max_steps > 100)
    /\ ~(auto_steps < 0 \/ auto_steps > max_steps)

\* channel is interaction.channel: a thread, or None for a text channel;
\* created is the thread channel.create_thread returned to this request.
NewStart(u, pc, steps) ==
    [user |-> u, pc |-> pc, steps |-> steps, channel |-> None, thread |-> None,
     created |-> None, client |-> None,
     attempt |-> 0, connects |-> 0, retries |-> 0, fnotices |-> 0, raised |-> 0,
     inv |-> None]

\* The channels a command can be invoked in: a text channel or a thread.
Channels == {None} \cup (1..Len(threads))

\* /simple_agent of user u in channel ch: defaults, validation, duplicate check.
StartRequest(u, ch, max_steps, auto_steps) ==
    LET ms == OrDefault(max_steps, default_max_steps)
        au == OrDefault(auto_steps, default_auto_steps)
        pc == IF ~ValidSteps(ms, au) THEN "invalid"
              ELSE IF u \in DOMAIN active_sessions THEN "rejected"
              ELSE "creating"
    IN  /\ Len(starts) < MaxStarts
        /\ starts' = Append(starts, [NewStart(u, pc, <<ms, au>>) EXCEPT !.channel = ch])
        /\ UNCHANGED <<sessionVars, batchVars, clients, fms, threads, cleanups,
                       handlers, bulk, arbVars, finVars, updater>>

\* create_agent_thread (thread_manager.py:41-73): invoked in a thread it
\* returns that channel at once (lines 43-45) and the command goes on to its
\* announcement; else channel.create_thread returns the new thread and
\* thread.add_user is awaited (lines 59-69).
StartThreadCreated(i) ==
    /\ starts[i].pc = "creating"
    /\ IF starts[i].channel # None
       THEN /\ UNCHANGED threads
            /\ starts' = [starts EXCEPT ![i].pc = "announcing",
                                        ![i].thread = starts[i].channel]
       ELSE /\ threads' = Append(threads, starts[i].user)
            /\ starts' = [starts EXCEPT ![i].pc = "adding",
                                        ![i].created = Len(threads) + 1]
    /\ UNCHANGED <<sessionVars, batchVars, clients, fms, cleanups, handlers, bulk,
                   arbVars, finVars, updater>>

\* thread.add_user returns, or raises discord.HTTPException, which is caught
\* (lines 68-73): create_agent_thread returns the thread it created.
StartUserAdded(i) ==
    /\ starts[i].pc = "adding"
    /\ starts' = [starts EXCEPT ![i].pc = "announcing", ![i].thread = starts[i].created]
    /\ UNCHANGED <<sessionVars, batchVars, clients, fms, threads, cleanups, handlers,
                   bulk, arbVars, finVars, updater>>

\* thread.add_user raises something else: `except Exception` returns None
\* (lines 81-83) and the thread stays, held by no request.
StartAddUserFails(i) ==
    /\ starts[i].pc = "adding"
    /\ starts' = [starts EXCEPT ![i].pc = "nothread"]
    /\ UNCHANGED <<sessionVars, batchVars, clients, fms, threads, cleanups, handlers,
                   bulk, arbVars, finVars, updater>>

\* create_agent_thread returns None before any thread exists: no text
\* channel, no permission, or create_thread raises (lines 48-56, 75-83); the
\* command replies and ends (simple_agent_command.py:113-118).
StartThreadFails(i) ==
    /\ starts[i].pc = "creating"
    /\ starts[i].channel = None
    /\ starts' = [starts EXCEPT ![i].pc = "nothread"]
    /\ UNCHANGED <<sessionVars, batchVars, clients, fms, threads, cleanups, handlers,
                   bulk, arbVars, finVars, updater>>

\* thread.send and followup.send returned: the link and the collector are
\* created and the session is stored (lines 149-167); the first connect
\* attempt is awaited.
StartRegistered(i) ==
    LET u == starts[i].user
        c == Len(clients) + 1
        f == Len(fms) + 1
    IN  /\ starts[i].pc = "announcing"
        /\ clients' = Append(clients, NewClient(u, starts[i].thread, f, FALSE, "idle"))
        /\ fms' = Append(fms, NewFileManager(u))
        /\ active_sessions' = Put(active_sessions, u, c)
        /\ active_order' = PutKey(active_order, u)
        /\ session_threads' = Put(session_threads, u, starts[i].thread)
        /\ file_managers' = Put(file_managers, u, f)
        /\ starts' = [starts EXCEPT ![i].pc = "connecting", ![i].client = c,
                                    ![i].connects = 1]
        /\ UNCHANGED <<batchVars, threads, cleanups, handlers, bulk, arbVars, finVars, updater>>

\* thread.send or followup.send raises: the outer handler (lines 203-208).
StartAnnounceFails(i) ==
    /\ starts[i].pc = "announcing"
    /\ starts' = [starts EXCEPT ![i].pc = "aborted"]
    /\ UNCHANGED <<sessionVars, batchVars, clients, fms, threads, cleanups, handlers,
                   bulk, arbVars, finVars, updater>>

\* connect() returns True, the connect event handler has set `connected`
\* (client.py:63-67); run_agent emits, or sio.emit raises and it returns
\* False, which nobody reads; the retry loop is left.
StartConnected(i) ==
    LET c == starts[i].client
    IN  /\ starts[i].pc = "connecting"
        /\ clients' = [clients EXCEPT ![c].connected = TRUE]
        /\ \E emit \in {"ok", "error"} :
              emitted' = IF emit = "ok"
                         THEN Append(emitted, [client |-> c, cmd |-> "run_agent",
                                               arg |-> starts[i].steps])
                         ELSE emitted
        /\ starts' = [starts EXCEPT ![i].pc = "started"]
        /\ UNCHANGED <<sessionVars, batchVars, fms, threads, cleanups, handlers, bulk,
                       arbiters, messages, returns, finVars, updater>>

\* A loop that gives up one attempt early.
StartConnectFailed_GivesUpEarly(i) ==
    /\ starts[i].pc = "connecting"
    /\ starts' = IF starts[i].attempt < max_retries - 2
                 THEN [starts EXCEPT ![i].attempt = @ + 1, ![i].pc = "retrying"]
                 ELSE [starts EXCEPT ![i].pc = "failing"]
    /\ UNCHANGED <<sessionVars, batchVars, clients, fms, threads, cleanups, handlers,
                   bulk, arbVars, finVars, updater>>

\* connect() returns False (lines 188-193): the loop goes to its next
\* iteration, which starts with the retry notice, or after the last attempt
\* the failure notice is sent.
StartConnectFailed(i) ==
    /\ starts[i].pc = "connecting"
    /\ starts' = IF starts[i].attempt < max_retries - 1
                 THEN [starts EXCEPT ![i].attempt = @ + 1, ![i].pc = "retrying"]
                 ELSE [starts EXCEPT ![i].pc = "failing"]
    /\ UNCHANGED <<sessionVars, batchVars, clients, fms, threads, cleanups, handlers,
                   bulk, arbVars, finVars, updater>>

\* initial_msg.edit returns: the retry notice is shown and the retry delay
\* is slept (lines 175-183).
StartRetryPosted(i) ==
    /\ starts[i].pc = "retrying"
    /\ starts' = [starts EXCEPT ![i].pc = "retrydelay", ![i].retries = @ + 1]
    /\ UNCHANGED <<sessionVars, batchVars, clients, fms, threads, cleanups, handlers,
                   bulk, arbVars, finVars, updater>>

\* The retry delay is over: connect() is called again (lines 183-185).
StartRetryDelayOver(i) ==
    /\ starts[i].pc = "retrydelay"
    /\ starts' = [starts EXCEPT ![i].pc = "connecting", ![i].connects = @ + 1]
    /\ UNCHANGED <<sessionVars, batchVars, clients, fms, threads, cleanups, handlers,
                   bulk, arbVars, finVars, updater>>

\* initial_msg.edit raises: the handler of lines 195-201 sends the failure
\* notice when this was the last attempt, else the loop goes on.
StartRetryRaises(i) ==
    /\ starts[i].pc = "retrying"
    /\ starts[i].raised < MaxFailures
    /\ starts' = IF starts[i].attempt < max_retries - 1
                 THEN [starts EXCEPT ![i].attempt = @ + 1, ![i].raised = @ + 1]
                 ELSE [starts EXCEPT ![i].pc = "failing2", ![i].raised = @ + 1]
    /\ UNCHANGED <<sessionVars, batchVars, clients, fms, threads, cleanups, handlers,
                   bulk, arbVars, finVars, updater>>

\* The failure notice is posted: _cleanup_session is called (lines 191-192,
\* 199-200) and runs up to its first suspension.
StartFailurePosted(i) ==
    LET d1 == CleanupBegin(DState, starts[i].user, "start")
        inv == Len(d1.cleanups)
        pc == IF d1.cleanups[inv].pc = "done" THEN "gaveup"
              ELSE IF starts[i].pc = "failing" THEN "cleanup1" ELSE "cleanup2"
    IN  /\ starts[i].pc \in {"failing", "failing2"}
        /\ starts' = [starts EXCEPT ![i].pc = pc, ![i].fnotices = @ + 1, ![i].inv = inv]
        /\ Commit(d1)
        /\ UNCHANGED <<threads, notifications, arrived, lateArrival, handlers, bulk,
                       arbVars, finVars, updater>>

\* thread.send of the failure notice raises: from line 191 into the handler
\* of lines 195-201, from line 199 into the outer handler (lines 203-208),
\* which leaves the session as it is.
StartFailureRaises(i) ==
    /\ starts[i].pc \in {"failing", "failing2"}
    /\ starts[i].raised < MaxFailures
    /\ starts' = [starts EXCEPT ![i].pc = IF @ = "failing" THEN "failing2" ELSE "aborted",
                                ![i].raised = @ + 1]
    /\ UNCHANGED <<sessionVars, batchVars, clients, fms, threads, cleanups, handlers,
                   bulk, arbVars, finVars, updater>>

\* bot.close() calls cleanup(): the keys are listed, the loop runs up to its
\* first suspension.
BulkStart ==
    LET r == BulkLoop(DState, active_order, 1)
    IN  /\ bulk.pc = "idle"
        /\ Commit(r.d)
        /\ bulk' = r.bulk
        /\ UNCHANGED <<threads, notifications, arrived, lateArrival, handlers, starts,
                       arbVars, finVars, updater>>

InitSession ==
    /\ active_sessions = EmptyDict
    /\ active_order = <<>>
    /\ session_threads = EmptyDict
    /\ file_managers = EmptyDict
    /\ clients = <<>>
    /\ fms = <<>>
    /\ threads = <<>>
    /\ file_batches = EmptyDict
    /\ tool_batches = EmptyDict
    /\ tasks = [file |-> <<>>, tool |-> <<>>]
    /\ notifications = [file |-> <<>>, tool |-> <<>>]
    /\ arrived = [file |-> <<>>, tool |-> <<>>]
    /\ lateArrival = {}
    /\ cleanups = <<>>
    /\ handlers = <<>>
    /\ starts = <<>>
    /\ bulk = BulkIdle
    /\ arbiters = <<>>
    /\ messages = <<>>
    /\ emitted = <<>>
    /\ returns = <<>>
    /\ NoFinalize
    /\ updater = UpdaterIdle

\* The arguments tried: none given, and a max_steps below the range.
StepInputs == {<<<<>>, <<>>>>, <<<<0>>, <<>>>>}

NextSession ==
    \/ \E u \in Users, ch \in Channels, a \in StepInputs : StartRequest(u, ch, a[1], a[2])
    \/ \E i \in 1..Len(starts) : StartThreadCreated(i)
    \/ \E i \in 1..Len(starts) : StartUserAdded(i)
    \/ \E i \in 1..Len(starts) : StartThreadFails(i)
    \/ \E i \in 1..Len(starts) : StartAddUserFails(i)
    \/ \E i \in 1..Len(starts) : StartRegistered(i)
    \/ \E i \in 1..Len(starts) : StartAnnounceFails(i)
    \/ \E i \in 1..Len(starts) : StartConnected(i)
    \/ \E i \in 1..Len(starts) : StartConnectFailed(i)
    \/ \E i \in 1..Len(starts) : StartRetryPosted(i)
    \/ \E i \in 1..Len(starts) : StartRetryDelayOver(i)
    \/ \E i \in 1..Len(starts) : StartFailurePosted(i)
    \/ \E i \in 1..Len(starts) : StartRetryRaises(i)
    \/ \E i \in 1..Len(starts) : StartFailureRaises(i)
    \/ \E c \in 1..Len(clients), ev \in {"agent_finished", "agent_error"} :
          TerminalEvent(c, ev)
    \/ \E h \in 1..Len(handlers) : HandlerNotified(h)
    \/ \E i \in 1..Len(cleanups) : CleanupResume(i)
    \/ BulkStart

SpecSession == InitSession /\ [][NextSession]_vars

----------------------------------------------------------------------------
\* Bot shutdown: user 1 has a running session, and a request of user 2 has
\* passed the duplicate check and created its thread when close() may come.
InitShutdown ==
    /\ active_sessions = [s \in {1} |-> 1]
    /\ active_order = <<1>>
    /\ session_threads = [s \in {1} |-> 1]
    /\ file_managers = [s \in {1} |-> 1]
    /\ clients = <<NewClient(1, 1, 1, TRUE, "running")>>
    /\ fms = <<NewFileManager(1)>>
    /\ threads = <<1, 2>>
    /\ file_batches = EmptyDict
    /\ tool_batches = EmptyDict
    /\ tasks = [file |-> <<>>, tool |-> <<>>]
    /\ notifications = [file |-> <<>>, tool |-> <<>>]
    /\ arrived = [file |-> <<>>, tool |-> <<>>]
    /\ lateArrival = {}
    /\ cleanups = <<>>
    /\ handlers = <<>>
    /\ starts = <<[NewStart(1, "started", <<default_max_steps, default_auto_steps>>)
                      EXCEPT !.thread = 1, !.created = 1, !.client = 1, !.connects = 1],
                  [NewStart(2, "announcing", <<default_max_steps, default_auto_steps>>)
                      EXCEPT !.thread = 2, !.created = 2]>>
    /\ bulk = BulkIdle
    /\ arbiters = <<>>
    /\ messages = <<>>
    /\ emitted = <<[client |-> 1, cmd |-> "run_agent",
                    arg |-> <<default_max_steps, default_auto_steps>>]>>
    /\ returns = <<>>
    /\ NoFinalize
    /\ updater = UpdaterIdle

NextShutdown ==
    \/ \E i \in 1..Len(starts) : StartRegistered(i)
    \/ \E i \in 1..Len(starts) : StartAnnounceFails(i)
    \/ \E i \in 1..Len(starts) : StartConnected(i)
    \/ \E i \in 1..Len(starts) : StartConnectFailed(i)
    \/ \E i \in 1..Len(starts) : StartRetryPosted(i)
    \/ \E i \in 1..Len(starts) : StartRetryDelayOver(i)
    \/ \E i \in 1..Len(starts) : StartFailurePosted(i)
    \/ \E c \in 1..Len(clients) : NumArrived < MaxShutdownItems /\ OnToolCall(c)
    \/ \E t \in 1..Len(tasks.tool) : TimerFires("tool", t)
    \/ \E t \in 1..Len(tasks.tool) : PostDelivered("tool", t)
    \/ \E t \in 1..Len(tasks.tool) : PostReturns("tool", t)
    \/ \E t \in 1..Len(tasks.tool) : PostFails("tool", t)
    \/ \E c \in 1..Len(clients), ev \in {"agent_finished", "agent_error"} :
          TerminalEvent(c, ev)
    \/ \E h \in 1..Len(handlers) : HandlerNotified(h)
    \/ \E i \in 1..Len(cleanups) : CleanupResume(i)
    \/ BulkStart

SpecShutdown == InitShutdown /\ [][NextShutdown]_vars

----------------------------------------------------------------------------
\* Vocabulary of the session claims.
\* Start i holds a thread and its session is being set up or is registered.
HoldsSession(i) ==
    /\ starts[i].thread # None
    /\ \/ starts[i].pc = "announcing"
       \/ /\ starts[i].pc \in {"connecting", "started"}
          /\ starts[i].user \in DOMAIN active_sessions
          /\ active_sessions[starts[i].user] = starts[i].client
LinksOf(u) == {c \in 1..Len(clients) : clients[c].sid = u /\ clients[c].connected}

\* C7 as stated: under every interleaving of start requests, an identity has
\* at most one session with its thread and at most one connected link at a
\* time; a request of an identity that already has one creates no thread.
C7_OneSessionPerIdentity ==
    \A u \in Users :
        /\ Cardinality({i \in 1..Len(starts) : starts[i].user = u /\ HoldsSession(i)}) <= 1
        /\ Cardinality(LinksOf(u)) <= 1

\* C10 as stated: when cleanup() has returned, the registry is empty, no
\* scheduled flush is left, and each session that was active when it was
\* called went through one teardown of the loop.
C10_BulkLeavesNothing ==
    bulk.pc = "done" =>
        /\ bulk.registry = {}
        /\ bulk.scheduled = {}
        /\ \A k \in 1..Len(bulk.keys) :
              Cardinality({i \in 1..Len(cleanups) :
                             /\ cleanups[i].sid = bulk.keys[k]
                             /\ cleanups[i].caller = "bulk"
                             /\ cleanups[i].pc = "done"}) = 1


----------------------------------------------------------------------------
\* The inputs of a finalization: n tracked files, the first b of them big;
\* the first or the last item of the list may be tracked under the unknown
\* path (u is its number, 0 for none), which the server does not hold.
BigSizes == {13 * 1024 * 1024, max_file_size - 1, max_file_size}
TrackedPath(i) == <<"output", i>>
TrackedItem(i, u) == IF i = u THEN UnknownFile ELSE TrackedPath(i)

\* hs are the terminal handlers under way, none for a direct call.
FinalizeInputs(hs) ==
    \E n \in 0..MaxFiles, big \in BigSizes :
      \E b \in 0..Min(n, MaxBig), u \in {0, Min(n, 1), n} :
        /\ active_sessions = [s \in {1} |-> 1]
        /\ active_order = <<1>>
        /\ session_threads = [s \in {1} |-> 1]
        /\ file_managers = [s \in {1} |-> 1]
        /\ clients = <<NewClient(1, 1, 1, TRUE, "idle")>>
        /\ fms = <<[session_id |-> 1,
                    created_files |-> [i \in 1..n |-> FileInfo(TrackedItem(i, u))],
                    issued |-> {}]>>
        /\ threads = <<1>>
        /\ file_batches = EmptyDict
        /\ tool_batches = EmptyDict
        /\ tasks = [file |-> <<>>, tool |-> <<>>]
        /\ notifications = [file |-> <<>>, tool |-> <<>>]
        /\ arrived = [file |-> <<>>, tool |-> <<>>]
        /\ lateArrival = {}
        /\ cleanups = <<>>
        /\ handlers = hs
        /\ starts = <<>>
        /\ bulk = BulkIdle
        /\ arbiters = <<>>
        /\ messages = <<>>
        /\ emitted = <<>>
        /\ returns = <<>>
        /\ remote = [p \in {TrackedPath(i) : i \in (1..n) \ {u}} |->
                        IF p[2] <= b THEN big ELSE SmallSize]
        /\ storage = {}
        /\ finalize = <<>>
        /\ sent = <<>>
        /\ updater = UpdaterIdle

InitFinalize == FinalizeInputs(<<>>)

NextFinalize ==
    \/ \E fm \in 1..Len(fms) : FinalizeCall(fm)
    \/ \E i \in 1..Len(finalize) : SummaryPosted(i)
    \/ \E i \in 1..Len(finalize) : FileDelayOver(i)
    \/ \E i \in 1..Len(finalize) : SummaryFails(i)
    \/ \E i \in 1..Len(finalize), outcome \in Outcomes :
          FileDownloaded(i, outcome)
    \/ \E i \in 1..Len(finalize), ok \in BOOLEAN : NoFilesPosted(i, ok)
    \/ \E i \in 1..Len(finalize) : DeliveryPosted(i)
    \/ \E i \in 1..Len(finalize) : DeliveryFails(i)
    \/ \E i \in 1..Len(finalize), ok \in BOOLEAN : Reported(i, ok)

SpecFinalize == InitFinalize /\ [][NextFinalize]_vars

\* C8 as stated: when send_files_to_thread has returned, nothing it created
\* is left in the temp directory, whichever way it went.
C8_NoTempFileLeft ==
    \A c \in 1..Len(finalize) : finalize[c].pc = "returned" => storage = {}

\* The download loop of call f is over and at least one file is staged.
LoopOver(f) ==
    /\ f.pc \in {"posting", "reporting", "returned"}
    /\ Len(f.temp_files) + Len(f.failed_files) = Len(fms[f.fm].created_files)
    /\ f.temp_files # <<>>
DeliveryPosts == {i \in 1..Len(sent) : sent[i].kind \in {"single", "multi", "zip", "toolarge"}}
ArchiveNotices == {i \in 1..Len(sent) : sent[i].kind = "zipfailed"}

----------------------------------------------------------------------------
\* Vocabulary of the teardown claims.
CleanupsOf(s) == {i \in 1..Len(cleanups) : cleanups[i].sid = s}
InProgress(i) == cleanups[i].pc = "disconnecting"
Unregistered(s) ==
    /\ s \notin DOMAIN active_sessions
    /\ s \notin DOMAIN session_threads
    /\ s \notin DOMAIN file_managers
    /\ s \notin DOMAIN file_batches
    /\ s \notin DOMAIN tool_batches

\* C11 as stated: a call of _cleanup_session that comes after a finished one,
\* or that overlaps one still in progress for the same key, raises nothing,
\* and when no call for the key is in progress any more the key is gone from
\* the registry, as after a single call.
C11_CleanupReentrant ==
    \A i \in 1..Len(cleanups) :
        /\ cleanups[i].pc # "raised"
        /\ (\A j \in CleanupsOf(cleanups[i].sid) : ~InProgress(j))
              => /\ cleanups[i].sid \notin DOMAIN active_sessions
                 /\ cleanups[i].sid \notin DOMAIN session_threads
                 /\ cleanups[i].sid \notin DOMAIN file_managers

\* C12 as stated: at the step in which a call of _cleanup_session(k) returns
\* normally, the link of k is closed (the link the call found registered at
\* line 546, and the link it takes out of active_sessions at line 548), k is
\* in none of the five per-session maps, the artifact list of k is empty and
\* no flush task of k is pending.
Returns(i) ==
    /\ i \in 1..Len(cleanups')
    /\ cleanups'[i].pc = "done"
    /\ i \in 1..Len(cleanups) => cleanups[i].pc # "done"
C12_CleanupPostcondition ==
    [][\A i \in 1..Len(cleanups') :
          Returns(i) =>
             LET k == cleanups'[i].sid
             IN  /\ cleanups'[i].client # None => ~clients'[cleanups'[i].client].connected
                 /\ k \in DOMAIN active_sessions
                       => ~clients'[active_sessions[k]].connected
                 /\ k \notin DOMAIN active_sessions'
                 /\ k \notin DOMAIN session_threads'
                 /\ k \notin DOMAIN file_managers'
                 /\ k \notin DOMAIN file_batches'
                 /\ k \notin DOMAIN tool_batches'
                 /\ k \in DOMAIN file_managers
                       => fms'[file_managers[k]].created_files = <<>>
                 /\ \A kind \in Kinds : \A t \in 1..Len(tasks'[kind]) :
                       tasks'[kind][t].sid = k
                          => tasks'[kind][t].st \notin {"sleeping", "posting"}]_vars

\* C13 as stated: a flush task that was cancelled never changes again, so it
\* emits nothing afterwards; every notification that is emitted comes from a
\* task that is posting, for a session no teardown has finished for; and a
\* batch is either flushed or cancelled, never both, also when its delay is
\* over and the flush is in flight when teardown comes.
C13_NoFlushAfterCancel ==
    [][\A kind \in Kinds :
          /\ \A t \in 1..Len(tasks[kind]) :
                tasks[kind][t].st = "cancelled" => tasks'[kind][t] = tasks[kind][t]
          /\ Len(notifications'[kind]) > Len(notifications[kind]) =>
                LET n == notifications'[kind][Len(notifications'[kind])]
                IN  /\ tasks[kind][n.task].st = "posting"
                    /\ ~\E i \in 1..Len(cleanups) :
                          cleanups[i].sid = n.sid /\ cleanups[i].pc = "done"
          /\ \A t \in 1..Len(tasks[kind]) :
                (/\ cleanups' # cleanups
                 /\ tasks[kind][t].st # "cancelled"
                 /\ tasks'[kind][t].st = "cancelled")
                   => ~tasks[kind][t].delivered]_vars

\* C14: in every state a (session, kind) has at most one flush task that is
\* neither finished nor cancelled, and it is the one its batch entry refers to.
PendingTasks(s, kind) == {t \in TasksOf(s, kind) : NotDone(kind, t)}
C14_OnePendingFlush ==
    \A s \in Users, kind \in Kinds :
        /\ Cardinality(PendingTasks(s, kind)) <= 1
        /\ \A t \in PendingTasks(s, kind) :
              s \in DOMAIN BatchesOf(kind) /\ BatchesOf(kind)[s].task = t

\* Three file_created events came in a row: the timers of the first two were
\* cancelled, the third one is the only one scheduled.
C14_Witness ==
    /\ Cardinality(TasksOf(1, "file")) = 3
    /\ Cardinality({t \in TasksOf(1, "file") : tasks.file[t].st = "cancelled"}) = 2
    /\ Cardinality(PendingTasks(1, "file")) = 1

----------------------------------------------------------------------------
\* The artifact collector of one running session: file_created events with
\* paths that repeat, that share a file name, and the path on_file_created
\* falls back to when the event names none.
CollectorPaths ==
    {<<"output", "a.txt">>, <<"output", "b.txt">>, <<"docs", "a.txt">>,
     <<"Unknown file">>}

InitCollector == InitBatch

NextCollector ==
    \/ \E c \in 1..Len(clients), p \in CollectorPaths :
          NumArrived < MaxItems /\ OnFileCreated(c, p, None)
    \/ \E t \in 1..Len(tasks.file) : TimerFires("file", t)
    \/ \E t \in 1..Len(tasks.file) : PostDelivered("file", t)
    \/ \E t \in 1..Len(tasks.file) : PostReturns("file", t)

SpecCollector == InitCollector /\ [][NextCollector]_vars

\* The paths given to add_file for session s so far, in call order.
AddedPaths(s) ==
    LET mine == SelectSeq(arrived.file, LAMBDA r : r.sid = s)
    IN  [i \in 1..Len(mine) |-> mine[i].path]
RECURSIVE FirstOccurrences(_)
FirstOccurrences(sq) ==
    IF sq = <<>> THEN <<>>
    ELSE LET front == FirstOccurrences(SubSeq(sq, 1, Len(sq) - 1))
             last == sq[Len(sq)]
         IN  IF InSeq(last, front) THEN front ELSE Append(front, last)

\* C15: after any sequence of add_file calls the artifact list holds no two
\* records with the same (path, name), and its paths are the paths passed so
\* far, each once, in the order in which they were first passed.
C15_NoDuplicateArtifact ==
    \A c \in 1..Len(clients) :
        LET files == fms[clients[c].fm].created_files
        IN  /\ \A i, j \in 1..Len(files) :
                  (files[i].path = files[j].path /\ files[i].name = files[j].name)
                     => i = j
            /\ [i \in 1..Len(files) |-> files[i].path]
                  = FirstOccurrences(AddedPaths(clients[c].sid))

\* add_file was called three times, twice with the same path, and two
\* records are tracked, the repeated path first.
C15_Witness ==
    /\ AddedPaths(1) = <<<<"output", "a.txt">>, <<"docs", "a.txt">>, <<"output", "a.txt">>>>
    /\ Len(fms[1].created_files) = 2
    /\ fms[1].created_files[1].path = <<"output", "a.txt">>
    /\ fms[1].created_files[2].path = <<"docs", "a.txt">>

----------------------------------------------------------------------------
\* Connect sequencing of session starts: each identity issues one request
\* with the default arguments, and the Notifier posts what it is given.
ConnectRequest(u) ==
    /\ \A j \in 1..Len(starts) : starts[j].user # u
    /\ \E ch \in Channels : StartRequest(u, ch, <<>>, <<>>)

InitConnect == InitSession

NextConnect ==
    \/ \E u \in Users : ConnectRequest(u)
    \/ \E i \in 1..Len(starts) : StartThreadCreated(i)
    \/ \E i \in 1..Len(starts) : StartUserAdded(i)
    \/ \E i \in 1..Len(starts) : StartRegistered(i)
    \/ \E i \in 1..Len(starts) : StartConnected(i)
    \/ \E i \in 1..Len(starts) : StartConnectFailed(i)
    \/ \E i \in 1..Len(starts) : StartRetryPosted(i)
    \/ \E i \in 1..Len(starts) : StartRetryDelayOver(i)
    \/ \E i \in 1..Len(starts) : StartFailurePosted(i)

SpecConnect == InitConnect /\ [][NextConnect]_vars

\* The calls of _cleanup_session made by start i.
TeardownsOf(i) ==
    {k \in 1..Len(cleanups) :
        cleanups[k].caller = "start" /\ cleanups[k].sid = starts[i].user}
RunCommands(c) ==
    IF c = None THEN {} ELSE Emits(c, "run_agent")
\* The connect loop of start i is over without a connection.
Exhausted(i) == starts[i].pc \in {"failing", "failing2", "cleanup1", "cleanup2", "gaveup"}

\* C17: a start calls connect at most 3 times, and every call after the
\* first comes after a retry notice and the delay of its own; once a call
\* connects, run_agent is sent once and the loop is left; when the loop is
\* left without a connection, 3 calls have failed, and the start ends with
\* one failure notice posted and one teardown of the session.
C17_ConnectSequencing ==
    \A i \in 1..Len(starts) :
        LET st == starts[i]
        IN  /\ st.connects <= 3
            /\ st.connects >= 1 =>
                  st.retries = IF st.pc = "retrydelay" THEN st.connects ELSE st.connects - 1
            /\ st.pc = "connecting" => st.connects = st.attempt + 1
            /\ st.pc = "started" =>
                  /\ Cardinality(RunCommands(st.client)) = 1
                  /\ clients[st.client].connected
                  /\ TeardownsOf(i) = {}
                  /\ st.fnotices = 0
            /\ st.pc # "started" => RunCommands(st.client) = {}
            /\ Exhausted(i) => st.connects = 3 /\ st.retries = 2
            /\ st.pc = "gaveup" =>
                  /\ st.fnotices = 1
                  /\ Cardinality(TeardownsOf(i)) = 1
                  /\ \A k \in TeardownsOf(i) : cleanups[k].pc = "done"
                  /\ st.user \notin DOMAIN active_sessions
            /\ st.pc \notin {"gaveup", "cleanup1", "cleanup2"} => TeardownsOf(i) = {}

\* One start connected at its third attempt, after two retry notices, and
\* another one gave up after three failed attempts.
C17_Witness ==
    /\ \E i \in 1..Len(starts) :
          starts[i].pc = "started" /\ starts[i].connects = 3 /\ starts[i].retries = 2
    /\ \E i \in 1..Len(starts) :
          starts[i].pc = "gaveup" /\ starts[i].connects = 3 /\ starts[i].fnotices = 1

----------------------------------------------------------------------------
\* Validation of the arguments of /simple_agent: the values at and around
\* the limits of both arguments, given or left out.
ValidateInputs ==
    {<<<<>>, <<>>>>, <<<<0>>, <<>>>>, <<<<1>>, <<>>>>, <<<<100>>, <<>>>>,
     <<<<101>>, <<>>>>, <<<<-1>>, <<>>>>, <<<<20>>, <<0>>>>, <<<<>>, <<-1>>>>,
     <<<<>>, <<20>>>>, <<<<>>, <<21>>>>, <<<<1>>, <<1>>>>, <<<<1>>, <<2>>>>,
     <<<<100>>, <<100>>>>, <<<<100>>, <<101>>>>, <<<<0>>, <<0>>>>}

\* The number of requests tried in one run.
MaxValidated == 1

ValidateRequest(u, a) ==
    /\ Len(starts) < MaxValidated
    /\ \E ch \in Channels : StartRequest(u, ch, a[1], a[2])

InitValidate == InitSession

NextValidate ==
    \/ \E u \in Users, a \in ValidateInputs : ValidateRequest(u, a)
    \/ \E i \in 1..Len(starts) : StartThreadCreated(i)
    \/ \E i \in 1..Len(starts) : StartUserAdded(i)
    \/ \E i \in 1..Len(starts) : StartThreadFails(i)
    \/ \E i \in 1..Len(starts) : StartAddUserFails(i)
    \/ \E i \in 1..Len(starts) : StartRegistered(i)
    \/ \E i \in 1..Len(starts) : StartAnnounceFails(i)
    \/ \E i \in 1..Len(starts) : StartConnected(i)
    \/ \E i \in 1..Len(starts) : StartConnectFailed(i)
    \/ \E i \in 1..Len(starts) : StartRetryPosted(i)
    \/ \E i \in 1..Len(starts) : StartRetryDelayOver(i)
    \/ \E i \in 1..Len(starts) : StartFailurePosted(i)

SpecValidate == InitValidate /\ [][NextValidate]_vars

InRange(steps) ==
    /\ 1 <= steps[1] /\ steps[1] <= 100
    /\ 0 <= steps[2] /\ steps[2] <= steps[1]
HoldingThread == {i \in 1..Len(starts) : starts[i].thread # None}
HoldingLink == {i \in 1..Len(starts) : starts[i].client # None}

\* C16: a request goes past validation only with 1 <= max_steps <= 100 and
\* 0 <= auto_steps <= max_steps, defaults applied; a request outside that
\* range ends as invalid and owns no thread and no link; every thread, link,
\* collector and registry entry that exists belongs to a request inside the
\* range, and every run_agent sent carries steps inside the range.
C16_StepValidation ==
    /\ \A i \in 1..Len(starts) :
          /\ starts[i].pc # "invalid" => InRange(starts[i].steps)
          /\ ~InRange(starts[i].steps) =>
                /\ starts[i].pc = "invalid"
                /\ starts[i].thread = None
                /\ starts[i].created = None
                /\ starts[i].client = None
                /\ starts[i].connects = 0
    /\ \A t \in 1..Len(threads) :
          \E i \in 1..Len(starts) : starts[i].created = t /\ InRange(starts[i].steps)
    /\ Len(threads) = Cardinality({i \in 1..Len(starts) : starts[i].created # None})
    /\ \A i \in HoldingThread : starts[i].thread \in 1..Len(threads)
    /\ Len(clients) = Cardinality(HoldingLink)
    /\ Len(fms) = Len(clients)
    /\ \A i \in HoldingThread \cup HoldingLink : InRange(starts[i].steps)
    /\ \A k \in DOMAIN active_sessions :
          \E i \in HoldingLink : starts[i].user = k /\ starts[i].client = active_sessions[k]
    /\ \A k \in 1..Len(emitted) : emitted[k].cmd = "run_agent" => InRange(emitted[k].arg)

\* A request with max_steps=20 and auto_steps=0 was accepted: its thread and
\* its link exist and run_agent went out with these steps.
C16_Witness ==
    /\ \E i \in 1..Len(starts) :
          starts[i].steps = <<20, 0>> /\ starts[i].pc = "started"
    /\ Len(threads) = 1 /\ Len(clients) = 1
    /\ \E k \in 1..Len(emitted) : emitted[k].cmd = "run_agent" /\ emitted[k].arg = <<20, 0>>

----------------------------------------------------------------------------
\* The /stop_agent command.
MaxStops == 1

\* ws_client.stop_agent (client.py:235-252): emits only when connected.
stop_agent(em, c, emit) == LinkCall(em, c, "stop_agent", "command", emit).em

StopsSent == {k \in 1..Len(emitted) : emitted[k].cmd = "stop_agent" /\ emitted[k].arg = "command"}

\* stop_agent_command of user u (lines 577-594): without a session the
\* refusal is sent; with one, the stop request goes out on its link and the
\* reply is sent.  Nothing of the dispatcher changes.
StopCommand(u) ==
    /\ Cardinality(StopsSent) < MaxStops
    /\ \E emit \in {"ok", "error"} :
          emitted' = IF u \notin DOMAIN active_sessions THEN emitted
                     ELSE stop_agent(emitted, active_sessions[u], emit)
    /\ UNCHANGED <<sessionVars, batchVars, clients, fms, threads, cleanups, handlers,
                   starts, bulk, arbiters, messages, returns, finVars, updater>>

InitStop == InitBatch

NextStop ==
    \/ \E u \in Users : StopCommand(u)
    \/ \E c \in 1..Len(clients), p \in BatchPaths :
          NumArrived < MaxItems /\ OnFileCreated(c, p, None)
    \/ \E c \in 1..Len(clients) : NumArrived < MaxItems /\ OnToolCall(c)
    \/ \E kind \in Kinds : \E t \in 1..Len(tasks[kind]) : TimerFires(kind, t)
    \/ \E kind \in Kinds : \E t \in 1..Len(tasks[kind]) : PostDelivered(kind, t)
    \/ \E kind \in Kinds : \E t \in 1..Len(tasks[kind]) : PostReturns(kind, t)
    \/ \E c \in 1..Len(clients), ev \in {"agent_finished", "agent_error"} :
          TerminalEvent(c, ev)
    \/ \E h \in 1..Len(handlers) : HandlerNotified(h)
    \/ \E i \in 1..Len(finalize) : SummaryPosted(i)
    \/ \E i \in 1..Len(finalize) : FileDelayOver(i)
    \/ \E i \in 1..Len(finalize) : SummaryFails(i)
    \/ \E i \in 1..Len(finalize), outcome \in Outcomes :
          FileDownloaded(i, outcome)
    \/ \E i \in 1..Len(finalize), ok \in BOOLEAN : NoFilesPosted(i, ok)
    \/ \E i \in 1..Len(cleanups) : CleanupResume(i)

SpecStop == InitStop /\ [][NextStop]_vars

\* C18: once the stop command of a user with an active session has
\* completed (its stop request is out), that session is no longer in the
\* session registry.
C18_StopRemovesSession ==
    \A k \in StopsSent :
        LET c == emitted[k].client
        IN  ~(clients[c].sid \in DOMAIN active_sessions
              /\ active_sessions[clients[c].sid] = c)

----------------------------------------------------------------------------
\* The arbiter of link c is at work: from the waiting_for_input event up to
\* the end of the accept branch.
ArbiterActive(c) ==
    \E i \in 1..Len(arbiters) :
        arbiters[i].client = c /\ arbiters[i].pc \in {"prompting", "waiting", "accepting", "rejecting"}

\* C20: the status of a link is waiting_input only while the arbiter is
\* active for it; once the authorized user's input has been forwarded and the
\* arbiter is resolved, the status is running again.
C20_WaitingOnlyWhileArbiterActive ==
    /\ \A c \in 1..Len(clients) : clients[c].status = "waiting_input" => ArbiterActive(c)
    /\ \A i \in 1..Len(arbiters) :
          (arbiters[i].pc = "resolved" /\ ~ArbiterActive(arbiters[i].client))
             => clients[arbiters[i].client].status = "running"

----------------------------------------------------------------------------
\* Loss of the link.
\* The disconnect event handler of link c (client.py:69-74): the two fields
\* of the link are reset, the dispatcher is not told.
LinkDisconnected(c) ==
    /\ clients[c].connected
    /\ clients' = [clients EXCEPT ![c].connected = FALSE, ![c].status = "idle"]
    /\ UNCHANGED <<sessionVars, batchVars, fms, threads, cleanups, handlers, starts,
                   bulk, arbVars, finVars, updater>>

InitDrop == InitBatch

\* What arrives from outside.
DropInbound ==
    \/ \E c \in 1..Len(clients) : LinkDisconnected(c)
    \/ \E c \in 1..Len(clients), p \in BatchPaths :
          NumArrived < MaxItems /\ OnFileCreated(c, p, None)
    \/ \E c \in 1..Len(clients) : NumArrived < MaxItems /\ OnToolCall(c)
    \/ \E c \in 1..Len(clients), ev \in {"agent_finished", "agent_error"} :
          TerminalEvent(c, ev)

\* What the event loop runs by itself: timers, posts in flight, suspended
\* handlers and teardown calls.
DropInternal ==
    \/ \E kind \in Kinds : \E t \in 1..Len(tasks[kind]) : TimerFires(kind, t)
    \/ \E kind \in Kinds : \E t \in 1..Len(tasks[kind]) : PostDelivered(kind, t)
    \/ \E kind \in Kinds : \E t \in 1..Len(tasks[kind]) : PostReturns(kind, t)
    \/ \E h \in 1..Len(handlers) : HandlerNotified(h)
    \/ \E i \in 1..Len(finalize) : SummaryPosted(i)
    \/ \E i \in 1..Len(finalize) : FileDelayOver(i)
    \/ \E i \in 1..Len(finalize) : SummaryFails(i)
    \/ \E i \in 1..Len(finalize), outcome \in Outcomes :
          FileDownloaded(i, outcome)
    \/ \E i \in 1..Len(finalize), ok \in BOOLEAN : NoFilesPosted(i, ok)
    \/ \E i \in 1..Len(cleanups) : CleanupResume(i)

NextDrop == DropInbound \/ DropInternal

\* The event loop runs every task that is ready; nothing is assumed about
\* what arrives.
SpecDrop == InitDrop /\ [][NextDrop]_vars /\ WF_vars(DropInternal)

\* Session s is registered and its link is down.
Dropped(s) ==
    /\ s \in DOMAIN active_sessions
    /\ ~clients[active_sessions[s]].connected

\* C19: once the link of an active session is down, the session is
\* eventually gone from all per-session maps, whatever arrives or does not
\* arrive afterwards.
C19_DisconnectRemovesSession ==
    \A s \in Users : Dropped(s) ~> Unregistered(s)

----------------------------------------------------------------------------
\* The status field of the link (client.py:15-21, 82-177).
\* The session identifier the server issues for the session of key s; it
\* differs from every caller-chosen key.
ServerSid(s) == s + 100

\* An on_agent_started that leaves the collector's identifier alone.
AgentStartedEvent_KeepsKey(c, wsid) ==
    /\ clients[c].connected
    /\ clients' = [clients EXCEPT ![c].status = "running"]
    /\ fms' = IF wsid # None
              THEN [fms EXCEPT ![clients[c].fm].issued = @ \cup {wsid}]
              ELSE fms
    /\ UNCHANGED <<sessionVars, batchVars, threads, cleanups, handlers, starts, bulk,
                   arbVars, finVars, updater>>

\* agent_started on link c (client.py:82-88), then on_agent_started
\* (lines 220-232): the status is set, the collector takes the identifier of
\* the event when there is one (wsid = None: no session_id field).
AgentStartedEvent(c, wsid) ==
    /\ clients[c].connected
    /\ clients' = [clients EXCEPT ![c].status = "running"]
    /\ fms' = IF wsid # None
              THEN [fms EXCEPT ![clients[c].fm].session_id = wsid,
                               ![clients[c].fm].issued = @ \cup {wsid}]
              ELSE fms
    /\ UNCHANGED <<sessionVars, batchVars, threads, cleanups, handlers, starts, bulk,
                   arbVars, finVars, updater>>

\* task_completed on link c (client.py:146-152); on_task_completed only
\* posts (lines 404-408).
TaskCompletedEvent(c) ==
    /\ clients[c].connected
    /\ clients' = [clients EXCEPT ![c].status = "completed"]
    /\ UNCHANGED <<sessionVars, batchVars, fms, threads, cleanups, handlers, starts,
                   bulk, arbVars, finVars, updater>>

\* One session whose link has just connected (status still idle).
InitStatus ==
    /\ active_sessions = [s \in {1} |-> 1]
    /\ active_order = <<1>>
    /\ session_threads = [s \in {1} |-> 1]
    /\ file_managers = [s \in {1} |-> 1]
    /\ clients = <<NewClient(1, 1, 1, TRUE, "idle")>>
    /\ fms = <<NewFileManager(1)>>
    /\ threads = <<1>>
    /\ file_batches = EmptyDict
    /\ tool_batches = EmptyDict
    /\ tasks = [file |-> <<>>, tool |-> <<>>]
    /\ notifications = [file |-> <<>>, tool |-> <<>>]
    /\ arrived = [file |-> <<>>, tool |-> <<>>]
    /\ lateArrival = {}
    /\ cleanups = <<>>
    /\ handlers = <<>>
    /\ starts = <<>>
    /\ bulk = BulkIdle
    /\ arbiters = <<>>
    /\ messages = <<>>
    /\ emitted = <<>>
    /\ returns = <<>>
    /\ NoFinalize
    /\ updater = UpdaterIdle

\* The events a server sends in the order of its protocol: agent_started
\* first, file_created and waiting_for_input while it runs, task_completed
\* while it runs or waits, then agent_finished or agent_error.
NextStatus ==
    \/ \E c \in 1..Len(clients) : \E wsid \in {None, ServerSid(clients[c].sid)} :
          clients[c].status = "idle" /\ handlers = <<>> /\ AgentStartedEvent(c, wsid)
    \/ \E c \in 1..Len(clients), p \in BatchPaths :
          \E wsid \in {None, ServerSid(clients[c].sid)} :
             /\ clients[c].status = "running" /\ NumArrived < MaxItems
             /\ OnFileCreated(c, p, wsid)
    \/ \E t \in 1..Len(tasks["file"]) : TimerFires("file", t)
    \/ \E t \in 1..Len(tasks["file"]) : PostDelivered("file", t)
    \/ \E t \in 1..Len(tasks["file"]) : PostReturns("file", t)
    \/ \E c \in 1..Len(clients) :
          clients[c].status \in {"running", "waiting_input"} /\ TaskCompletedEvent(c)
    \/ \E c \in 1..Len(clients) :
          clients[c].status = "running" /\ WaitingForInputEvent(c)
    \/ \E i \in 1..Len(arbiters) : PromptPosted(i)
    \/ \E c \in 1..Len(clients), ev \in {"agent_finished", "agent_error"} :
          clients[c].status \in {"running", "waiting_input", "completed"}
             /\ TerminalEvent(c, ev)
    \/ \E h \in 1..Len(handlers) : HandlerNotified(h)
    \/ \E i \in 1..Len(finalize) : SummaryPosted(i)
    \/ \E i \in 1..Len(finalize) : FileDelayOver(i)
    \/ \E i \in 1..Len(finalize) : SummaryFails(i)
    \/ \E i \in 1..Len(finalize), outcome \in Outcomes :
          FileDownloaded(i, outcome)
    \/ \E i \in 1..Len(finalize), ok \in BOOLEAN : NoFilesPosted(i, ok)
    \/ \E i \in 1..Len(cleanups) : CleanupResume(i)
    \/ \E c \in 1..Len(clients) : LinkDisconnected(c)

SpecStatus == InitStatus /\ [][NextStatus]_vars

\* The edges of the status machine.
StatusEdges ==
    {<<"idle", "running">>, <<"running", "waiting_input">>, <<"waiting_input", "running">>,
     <<"running", "completed">>, <<"running", "error">>,
     <<"waiting_input", "completed">>, <<"waiting_input", "error">>}
Registered(c) ==
    /\ clients[c].sid \in DOMAIN active_sessions
    /\ active_sessions[clients[c].sid] = c

\* C21: while a session is registered, every change of its link's status is
\* an edge of Idle -> Running -> {WaitingForInput <-> Running} ->
\* {Completed, Error}; a status Completed or Error never changes.
C21_StatusEdges ==
    [][\A c \in 1..Len(clients) :
          (Registered(c) /\ clients'[c].sid \in DOMAIN active_sessions'
              /\ clients'[c].status # clients[c].status)
             => <<clients[c].status, clients'[c].status>> \in StatusEdges]_vars

----------------------------------------------------------------------------
\* The end of a session: terminal events, also repeated ones.
MaxRepeats == 2

RepeatedTerminalEvent(c, ev) ==
    /\ Len(handlers) < MaxRepeats
    /\ StartHandler(c, ev)

\* thread.send of the notice raises in on_agent_finished / on_agent_error
\* (lines 416, 428): nothing catches it, the handler is over.
HandlerNoticeFails(h) ==
    /\ handlers[h].pc = "notify"
    /\ handlers' = [handlers EXCEPT ![h].pc = "raised"]
    /\ UNCHANGED <<sessionVars, batchVars, clients, fms, threads, cleanups, starts, bulk,
                   arbVars, finVars, updater>>

InitTerminal == InitBatch

NextTerminal ==
    \/ \E c \in 1..Len(clients), p \in BatchPaths :
          NumArrived < MaxItems /\ OnFileCreated(c, p, None)
    \/ \E t \in 1..Len(tasks["file"]) : TimerFires("file", t)
    \/ \E t \in 1..Len(tasks["file"]) : PostDelivered("file", t)
    \/ \E t \in 1..Len(tasks["file"]) : PostReturns("file", t)
    \/ \E c \in 1..Len(clients), ev \in {"agent_finished", "agent_error"} :
          RepeatedTerminalEvent(c, ev)
    \/ \E h \in 1..Len(handlers) : HandlerNotified(h)
    \/ \E h \in 1..Len(handlers) : HandlerNoticeFails(h)
    \/ \E i \in 1..Len(finalize) : SummaryPosted(i)
    \/ \E i \in 1..Len(finalize) : FileDelayOver(i)
    \/ \E i \in 1..Len(finalize) : SummaryFails(i)
    \/ \E i \in 1..Len(finalize), outcome \in Outcomes :
          FileDownloaded(i, outcome)
    \/ \E i \in 1..Len(finalize), ok \in BOOLEAN : NoFilesPosted(i, ok)
    \/ \E i \in 1..Len(cleanups) : CleanupResume(i)

SpecTerminal == InitTerminal /\ [][NextTerminal]_vars

\* The handlers of session s that called send_files_to_thread.
Finalizations(s) ==
    {h \in 1..Len(handlers) :
        clients[handlers[h].client].sid = s /\ handlers[h].files # <<>>}

\* C22: whatever terminal events arrive for a session, at most one of its
\* handlers runs artifact finalization, so no artifact goes out twice.
C22_FinalizeAtMostOnce ==
    \A s \in Users : Cardinality(Finalizations(s)) <= 1

\* The handler h of a terminal event is over.
HandlerOver(h) ==
    \/ handlers[h].pc = "raised"
    \/ handlers[h].pc = "cleanup" /\ cleanups[handlers[h].inv].pc \in {"done", "raised"}

\* C25: when the handler of a terminal event is over, also after its notice
\* could not be posted, the session it ran for has been torn down, and the
\* artifacts tracked at that time have been handed to finalization.
C25_NoticeFailureContained ==
    \A h \in 1..Len(handlers) :
        HandlerOver(h) =>
            LET c == handlers[h].client
            IN  /\ ~Registered(c)
                /\ clients[c].sid \notin DOMAIN file_managers
                /\ fms[clients[c].fm].created_files = <<>>

----------------------------------------------------------------------------
\* The download loop of send_files_to_thread.
Tracked(f) == fms[f.fm].created_files
\* The number of tracked files whose download is over.
Requested(f) ==
    IF f.pc = "download" THEN f.k - 1
    ELSE IF f.pc \in {"nofiles", "posting", "reporting"} THEN Len(Tracked(f))
    ELSE IF f.pc = "returned" /\ f.k = Len(Tracked(f)) THEN Len(Tracked(f))
    ELSE 0
StagedNames(f) == {f.temp_files[i].name : i \in 1..Len(f.temp_files)}
FailedNames(f) == {f.failed_files[i] : i \in 1..Len(f.failed_files)}

\* The number of the first m tracked files that have a known path.
KnownUpTo(f, m) == Cardinality({i \in 1..m : Tracked(f)[i].path # UnknownFile})

\* C23 as stated: a file that could not be downloaded, or that is tracked
\* under the unknown path, is put on the failed list and the loop goes on:
\* every tracked file before the current one is either staged or on the
\* failed list, never both, and was requested if its path is known; when
\* the loop is over this holds of all tracked files; and the files that
\* were staged go out: when the call has returned, a delivery with exactly
\* the staged files has been posted, unless the archive was over the limit
\* or the post of the delivery itself raised.
C23_FailedDownloadContained ==
    \A c \in 1..Len(finalize) :
        LET f == finalize[c]
        IN  /\ Len(f.temp_files) + Len(f.failed_files) = Requested(f)
            /\ \A i \in 1..Requested(f) :
                  (Tracked(f)[i].name \in StagedNames(f)) # (Tracked(f)[i].name \in FailedNames(f))
            /\ StagedNames(f) \cup FailedNames(f) = {Tracked(f)[i].name : i \in 1..Requested(f)}
            /\ Len(f.requests) = KnownUpTo(f, IF f.pc = "download" THEN f.k ELSE Requested(f))
            /\ \A i \in 1..Requested(f) :
                  Tracked(f)[i].path = UnknownFile => Tracked(f)[i].name \in FailedNames(f)
            /\ f.pc = "nofiles" => f.temp_files = <<>>
            /\ f.pc \in {"posting", "reporting"} => f.temp_files # <<>>
            /\ (/\ f.pc = "returned" /\ LoopOver(f)
                /\ f.post.kind # "toolarge"
                /\ ~(f.post # NoPost /\ DeliveryPosts \cup ArchiveNotices = {}))
                  => \E i \in DeliveryPosts : sent[i].files = Names(f.temp_files)

\* C24: when send_files_to_thread has returned and some tracked file could
\* not be downloaded, a notice of its own with the names of all failed files
\* has been posted, whether some files were staged or none.
C24_FailedNamesReported ==
    \A c \in 1..Len(finalize) :
        (finalize[c].pc = "returned" /\ finalize[c].failed_files # <<>>)
            => \E k \in 1..Len(sent) :
                  sent[k].kind = "failed" /\ sent[k].files = finalize[c].failed_files

----------------------------------------------------------------------------
\* send_files_to_thread inside the handler that called it: the handler's
\* notice is being posted, n files are tracked.
InitDeliver ==
    FinalizeInputs(<<[client |-> 1, ev |-> "agent_finished", pc |-> "notify",
                      inv |-> None, files |-> <<>>]>>)

NextDeliver ==
    \/ \E h \in 1..Len(handlers) : HandlerNotified(h)
    \/ \E i \in 1..Len(finalize) : SummaryPosted(i)
    \/ \E i \in 1..Len(finalize) : FileDelayOver(i)
    \/ \E i \in 1..Len(finalize) : SummaryFails(i)
    \/ \E i \in 1..Len(finalize), outcome \in Outcomes :
          FileDownloaded(i, outcome)
    \/ \E i \in 1..Len(finalize), ok \in BOOLEAN : NoFilesPosted(i, ok)
    \/ \E i \in 1..Len(finalize) : DeliveryPosted(i)
    \/ \E i \in 1..Len(finalize) : DeliveryFails(i)
    \/ \E i \in 1..Len(finalize), ok \in BOOLEAN : Reported(i, ok)
    \/ \E i \in 1..Len(cleanups) : CleanupResume(i)

SpecDeliver == InitDeliver /\ [][NextDeliver]_vars

\* C26 as stated: send_files_to_thread never raises, and a call in which a
\* post, a download, the staging of a file or the packaging failed ends by
\* returning the failure value.
C26_FailureReturnsFailure ==
    \A c \in 1..Len(finalize) :
        /\ finalize[c].pc \in {"summary", "delay", "download", "nofiles", "posting",
                               "reporting", "returned"}
        /\ finalize[c].pc = "returned" => finalize[c].result \in {"ok", "failed"}
        /\ (finalize[c].pc = "returned" /\ finalize[c].failures > 0)
              => finalize[c].result = "failed"

----------------------------------------------------------------------------
\* The request methods of a link, called directly.
MaxCalls == 3

\* The request methods of the link (client.py:201-294); get_status emits its
\* command with no payload.
LinkCommands == {"run_agent", "stop_agent", "user_input", "get_status"}
ArgOf(cmd) ==
    IF cmd = "run_agent" THEN <<default_max_steps, default_auto_steps>>
    ELSE IF cmd = "stop_agent" THEN "command"
    ELSE IF cmd = "get_status" THEN None ELSE 0

\* One call of a request method of link c; the emit inside it, if it comes
\* to it, goes out or raises.
LinkRequest(c, cmd, emit) ==
    LET r == LinkCall(emitted, c, cmd, ArgOf(cmd), emit)
    IN  /\ Len(returns) < MaxCalls
        /\ emitted' = r.em
        /\ clients' = [clients EXCEPT ![c] = r.link]
        /\ returns' = Append(returns, [client |-> c, cmd |-> cmd, emit |-> emit,
                                       was |-> clients[c], now |-> r.link,
                                       before |-> emitted, after |-> r.em,
                                       ret |-> r.ret])
        /\ UNCHANGED <<sessionVars, batchVars, fms, threads, cleanups, handlers, starts,
                       bulk, arbiters, messages, finVars, updater>>

\* The connect event handler (client.py:63-67).
LinkConnected(c) ==
    /\ ~clients[c].connected
    /\ clients' = [clients EXCEPT ![c].connected = TRUE]
    /\ UNCHANGED <<sessionVars, batchVars, fms, threads, cleanups, handlers, starts,
                   bulk, arbVars, finVars, updater>>

InitLink == InitBatch

NextLink ==
    \/ \E c \in 1..Len(clients), cmd \in LinkCommands, emit \in {"ok", "error"} :
          LinkRequest(c, cmd, emit)
    \/ \E c \in 1..Len(clients) : LinkDisconnected(c)
    \/ \E c \in 1..Len(clients) : LinkConnected(c)

SpecLink == InitLink /\ [][NextLink]_vars

\* C27: a request method called on a link that is not connected returns
\* False, emits nothing and leaves the link's fields as they were; a call
\* never ends otherwise than by returning True or False, and it returns True
\* exactly when its one command went out.
C27_FailClosed ==
    \A k \in 1..Len(returns) :
        LET r == returns[k]
        IN  /\ r.ret \in {"True", "False"}
            /\ r.now = r.was
            /\ ~r.was.connected => (r.ret = "False" /\ r.after = r.before)
            /\ r.emit = "error" => (r.ret = "False" /\ r.after = r.before)
            /\ r.ret = "True" <=>
                  r.after = Append(r.before, [client |-> r.client, cmd |-> r.cmd,
                                              arg |-> ArgOf(r.cmd)])
            /\ r.ret = "False" => r.after = r.before

\* One call found the link down and returned False, one call on a connected
\* link had its emit raise and returned False, and one call went out.
C27_Witness ==
    /\ \E k \in 1..Len(returns) : ~returns[k].was.connected /\ returns[k].ret = "False"
    /\ \E k \in 1..Len(returns) :
          returns[k].was.connected /\ returns[k].emit = "error" /\ returns[k].ret = "False"
    /\ \E k \in 1..Len(returns) : returns[k].ret = "True"
    /\ Len(emitted) = 1

----------------------------------------------------------------------------
\* A run up to the delivery of its files: agent_started and file_created
\* events come in at any time while the link is up, also while the files are
\* being delivered, and may or may not carry the identifier the server
\* issued.  The run ends with one agent_finished.
KeyPaths == {<<"output", "a.txt">>, <<"output", "b.txt">>}
MaxKeyItems == 2

InitKey ==
    /\ active_sessions = [s \in {1} |-> 1]
    /\ active_order = <<1>>
    /\ session_threads = [s \in {1} |-> 1]
    /\ file_managers = [s \in {1} |-> 1]
    /\ clients = <<NewClient(1, 1, 1, TRUE, "idle")>>
    /\ fms = <<NewFileManager(1)>>
    /\ threads = <<1>>
    /\ file_batches = EmptyDict
    /\ tool_batches = EmptyDict
    /\ tasks = [file |-> <<>>, tool |-> <<>>]
    /\ notifications = [file |-> <<>>, tool |-> <<>>]
    /\ arrived = [file |-> <<>>, tool |-> <<>>]
    /\ lateArrival = {}
    /\ cleanups = <<>>
    /\ handlers = <<>>
    /\ starts = <<>>
    /\ bulk = BulkIdle
    /\ arbiters = <<>>
    /\ messages = <<>>
    /\ emitted = <<>>
    /\ returns = <<>>
    /\ remote = [p \in KeyPaths |-> SmallSize]
    /\ storage = {}
    /\ finalize = <<>>
    /\ sent = <<>>
    /\ updater = UpdaterIdle

NextKey ==
    \/ \E c \in 1..Len(clients) : \E wsid \in {None, ServerSid(clients[c].sid)} :
          AgentStartedEvent(c, wsid)
    \/ \E c \in 1..Len(clients), p \in KeyPaths :
          \E wsid \in {None, ServerSid(clients[c].sid)} :
             NumArrived < MaxKeyItems /\ OnFileCreated(c, p, wsid)
    \/ \E t \in 1..Len(tasks["file"]) : TimerFires("file", t)
    \/ \E t \in 1..Len(tasks["file"]) : PostDelivered("file", t)
    \/ \E t \in 1..Len(tasks["file"]) : PostReturns("file", t)
    \/ \E c \in 1..Len(clients) : handlers = <<>> /\ StartHandler(c, "agent_finished")
    \/ \E h \in 1..Len(handlers) : HandlerNotified(h)
    \/ \E i \in 1..Len(finalize) : SummaryPosted(i)
    \/ \E i \in 1..Len(finalize) : FileDelayOver(i)
    \/ \E i \in 1..Len(finalize) : SummaryFails(i)
    \/ \E i \in 1..Len(finalize), outcome \in Outcomes :
          FileDownloaded(i, outcome)
    \/ \E i \in 1..Len(finalize), ok \in BOOLEAN : NoFilesPosted(i, ok)
    \/ \E i \in 1..Len(finalize) : DeliveryPosted(i)
    \/ \E i \in 1..Len(finalize) : DeliveryFails(i)
    \/ \E i \in 1..Len(finalize), ok \in BOOLEAN : Reported(i, ok)
    \/ \E i \in 1..Len(cleanups) : CleanupResume(i)

SpecKey == InitKey /\ [][NextKey]_vars

\* The caller-chosen keys of the sessions that use collector fm.
SeedKeys(fm) == {clients[c].sid : c \in {d \in 1..Len(clients) : clients[d].fm = fm}}

\* C28: once an agent_started or file_created event carrying a server-issued
\* identifier has been handled, the collector holds that identifier, and
\* every content request begun from then on is keyed by it and not by the
\* key the session was seeded with.
C28_RequestsUseIssuedKey ==
    /\ \A fm \in 1..Len(fms) :
          fms[fm].issued # {} => fms[fm].session_id \in fms[fm].issued
    /\ \A c \in 1..Len(finalize) : \A k \in 1..Len(finalize[c].requests) :
          LET r == finalize[c].requests[k]
          IN  r.issued # {} => (r.key \in r.issued /\ r.key \notin SeedKeys(finalize[c].fm))

\* The identifier of the server came in between two content requests of one
\* finalization: the first was keyed by the seed key, nothing having been
\* issued yet, the second by the identifier of the server.
C28_Witness ==
    \E c \in 1..Len(finalize) :
        /\ finalize[c].pc = "returned"
        /\ Len(finalize[c].requests) = 2
        /\ finalize[c].requests[1].issued = {}
        /\ finalize[c].requests[1].key = 1
        /\ finalize[c].requests[2].issued = {ServerSid(1)}
        /\ finalize[c].requests[2].key = ServerSid(1)

----------------------------------------------------------------------------
\* C29 as stated: while the handler of an earlier event of a session has not
\* finished (it is at one of its suspension points), no handler of a later
\* event starts: no terminal handler is entered and no file event is taken
\* into a batch.
C29_HandlersSerialized ==
    [][(\E h \in 1..Len(handlers) : ~HandlerOver(h))
          => (Len(handlers') = Len(handlers) /\ arrived' = arrived)]_vars

----------------------------------------------------------------------------
\* What the five per-session maps hold for key k.
Entry(m, k) == IF k \in DOMAIN m THEN <<m[k]>> ELSE <<>>
Entries(k) ==
    <<Entry(active_sessions, k), Entry(session_threads, k), Entry(file_managers, k),
      Entry(file_batches, k), Entry(tool_batches, k)>>

\* A step in which an operation for key k acts: a start request, an event
\* handler, a flush or a teardown of k begins or moves on, or an event of k
\* is taken into a batch.
ActsFor(k) ==
    \/ \E i \in 1..Len(starts') :
          starts'[i].user = k /\ (i > Len(starts) \/ starts'[i] # starts[i])
    \/ \E h \in 1..Len(handlers') :
          /\ clients'[handlers'[h].client].sid = k
          /\ (h > Len(handlers) \/ handlers'[h] # handlers[h])
    \/ \E i \in 1..Len(cleanups') :
          cleanups'[i].sid = k /\ (i > Len(cleanups) \/ cleanups'[i] # cleanups[i])
    \/ \E kind \in Kinds : \E t \in 1..Len(tasks'[kind]) :
          /\ tasks'[kind][t].sid = k
          /\ (t > Len(tasks[kind]) \/ tasks'[kind][t] # tasks[kind][t])
    \/ \E kind \in Kinds : \E i \in 1..Len(arrived'[kind]) :
          arrived'[kind][i].sid = k /\ i > Len(arrived[kind])

\* Two sessions running side by side, each with its own link, thread and
\* collector; the server ends each of them once.
MaxFrameItems == 2

InitFrame ==
    /\ active_sessions = [s \in {1, 2} |-> s]
    /\ active_order = <<1, 2>>
    /\ session_threads = [s \in {1, 2} |-> s]
    /\ file_managers = [s \in {1, 2} |-> s]
    /\ clients = <<NewClient(1, 1, 1, TRUE, "running"), NewClient(2, 2, 2, TRUE, "running")>>
    /\ fms = <<NewFileManager(1), NewFileManager(2)>>
    /\ threads = <<1, 2>>
    /\ file_batches = EmptyDict
    /\ tool_batches = EmptyDict
    /\ tasks = [file |-> <<>>, tool |-> <<>>]
    /\ notifications = [file |-> <<>>, tool |-> <<>>]
    /\ arrived = [file |-> <<>>, tool |-> <<>>]
    /\ lateArrival = {}
    /\ cleanups = <<>>
    /\ handlers = <<>>
    /\ starts = <<>>
    /\ bulk = BulkIdle
    /\ arbiters = <<>>
    /\ messages = <<>>
    /\ emitted = <<>>
    /\ returns = <<>>
    /\ NoFinalize
    /\ updater = UpdaterIdle

\* File events and tool calls reach either key, MaxFrameItems of them in
\* all; each key ends once, with agent_finished; the platform takes every
\* post. The teardown of every key at shutdown is
\* SpecShutdown's.
NextFrame ==
    \/ \E c \in 1..Len(clients), p \in BatchPaths :
          NumArrived < MaxFrameItems /\ OnFileCreated(c, p, None)
    \/ \E c \in 1..Len(clients) : NumArrived < MaxFrameItems /\ OnToolCall(c)
    \/ \E kind \in Kinds : \E t \in 1..Len(tasks[kind]) : TimerFires(kind, t)
    \/ \E kind \in Kinds : \E t \in 1..Len(tasks[kind]) : PostDelivered(kind, t)
    \/ \E kind \in Kinds : \E t \in 1..Len(tasks[kind]) : PostReturns(kind, t)
    \/ \E c \in 1..Len(clients) :
          /\ \A h \in 1..Len(handlers) : handlers[h].client # c
          /\ StartHandler(c, "agent_finished")
    \/ \E h \in 1..Len(handlers) : HandlerNotified(h)
    \/ \E i \in 1..Len(finalize) : SummaryPosted(i)
    \/ \E i \in 1..Len(finalize) : FileDelayOver(i)
    \/ \E i \in 1..Len(finalize), outcome \in Outcomes :
          FileDownloaded(i, outcome)
    \/ \E i \in 1..Len(finalize) : NoFilesPosted(i, TRUE)
    \/ \E i \in 1..Len(cleanups) : CleanupResume(i)

SpecFrame == InitFrame /\ [][NextFrame]_vars

\* C30: a step changes what the five per-session maps hold for a key only
\* when an operation for that key acts in it; the entries of every other key
\* stay as they were.
C30_OtherKeysUntouched ==
    [][\A k \in Users : Entries(k)' # Entries(k) => ActsFor(k)]_vars

\* Both keys held a file batch at the same time: the item of key 2 came
\* first and is still in its batch, its timer asleep; the item of key 1
\* came second, and teardown of key 1 then discarded the batch of key 1 and
\* left nothing of key 1 in the five maps, with key 2 registered as before.
C30_Witness ==
    /\ Len(arrived.file) = 2
    /\ arrived.file[1].sid = 2 /\ arrived.file[2].sid = 1
    /\ \E i \in 1..Len(cleanups) : cleanups[i].sid = 1 /\ cleanups[i].pc = "done"
    /\ TimerDiscarded(1, "file")
    /\ Entries(1) = <<<<>>, <<>>, <<>>, <<>>, <<>>>>
    /\ Entries(2) = <<<<2>>, <<2>>, <<2>>, <<[items |-> <<1>>, task |-> 1]>>, <<>>>>
    /\ tasks.file[1].st = "sleeping"

----------------------------------------------------------------------------
\* ThreadManager.send_thread_update (thread_manager.py:106-171).
\* MAX_THREAD_MESSAGES of the environment (config.py:30, the default).
max_thread_messages == 50
MaxUpdates == 3

otherVars ==
    <<sessionVars, batchVars, clients, fms, threads, cleanups, handlers, starts, bulk,
      arbVars, finVars>>

\* The number of messages `thread.history(limit=max_thread_messages + 1)`
\* yields (line 153).
Fetched(count) == Min(count, max_thread_messages + 1)

\* The post of one call: what it is and how many messages the thread held.
ThreadPost(kind) == [kind |-> kind, held |-> updater.count]

\* _check_message_limit counts the fetched messages and stops at the first
\* count above the limit (lines 152-155).
LimitReached(count) == Fetched(count) > max_thread_messages

\* send_thread_update is called: the call is suspended in the read of
\* thread.history (line 153). Calls overlap: nothing makes one wait for
\* another.
UpdateCall ==
    /\ Len(updater.calls) < MaxUpdates
    /\ updater' = [updater EXCEPT !.calls = Append(@, "checking")]
    /\ UNCHANGED otherVars

\* The read of the history of call i is over: it raised (hist = "error":
\* _check_message_limit returns False, line 171, and the update is sent), or
\* it shows the limit passed and the warning is to be posted, or it does not.
UpdateChecked(i, hist) ==
    /\ updater.calls[i] = "checking"
    /\ updater' = [updater EXCEPT
                      !.calls[i] = IF hist = "ok" /\ LimitReached(updater.count)
                                   THEN "warning" ELSE "sending"]
    /\ UNCHANGED otherVars

\* thread.send of the warning of call i (line 164) returns: True, the update
\* is dropped; or it raises: `except Exception` returns False and the update
\* is sent after all.
UpdateWarned(i, ok) ==
    /\ updater.calls[i] = "warning"
    /\ updater' = IF ok
                  THEN [updater EXCEPT !.calls[i] = "returned", !.count = @ + 1,
                                       !.posts = Append(@, ThreadPost("warning")),
                                       !.results = Append(@, "None")]
                  ELSE [updater EXCEPT !.calls[i] = "sending"]
    /\ UNCHANGED otherVars

\* thread.send of the update of call i (line 128) returns the message, or
\* raises and None is returned (lines 131-139).
UpdateSent(i, ok) ==
    /\ updater.calls[i] = "sending"
    /\ updater' = IF ok
                  THEN [updater EXCEPT !.calls[i] = "returned", !.count = @ + 1,
                                       !.posts = Append(@, ThreadPost("update")),
                                       !.results = Append(@, "message")]
                  ELSE [updater EXCEPT !.calls[i] = "returned",
                                       !.results = Append(@, "None")]
    /\ UNCHANGED otherVars

\* A thread that holds about as many messages as the limit allows.
InitThread ==
    /\ active_sessions = EmptyDict
    /\ active_order = <<>>
    /\ session_threads = EmptyDict
    /\ file_managers = EmptyDict
    /\ clients = <<>>
    /\ fms = <<>>
    /\ threads = <<1>>
    /\ file_batches = EmptyDict
    /\ tool_batches = EmptyDict
    /\ tasks = [file |-> <<>>, tool |-> <<>>]
    /\ notifications = [file |-> <<>>, tool |-> <<>>]
    /\ arrived = [file |-> <<>>, tool |-> <<>>]
    /\ lateArrival = {}
    /\ cleanups = <<>>
    /\ handlers = <<>>
    /\ starts = <<>>
    /\ bulk = BulkIdle
    /\ arbiters = <<>>
    /\ messages = <<>>
    /\ emitted = <<>>
    /\ returns = <<>>
    /\ NoFinalize
    /\ \E n \in (max_thread_messages - 2)..(max_thread_messages + 1) :
          updater = [UpdaterIdle EXCEPT !.count = n]

NextThread ==
    \/ UpdateCall
    \/ \E i \in 1..Len(updater.calls), hist \in {"ok", "error"} : UpdateChecked(i, hist)
    \/ \E i \in 1..Len(updater.calls), ok \in BOOLEAN : UpdateWarned(i, ok)
    \/ \E i \in 1..Len(updater.calls), ok \in BOOLEAN : UpdateSent(i, ok)

SpecThread == InitThread /\ [][NextThread]_vars

\* C31 as stated: of the posts made through send_thread_update while the
\* thread holds more than max_thread_messages messages there is at most one,
\* and it is the warning.
C31_WarnOnceThenSilent ==
    \A i \in 1..Len(updater.posts) :
        updater.posts[i].held > max_thread_messages =>
            /\ updater.posts[i].kind = "warning"
            /\ \A j \in 1..(i - 1) : updater.posts[j].held <= max_thread_messages

----------------------------------------------------------------------------
\* The input arbiter of a session that ends: the server's terminal event
\* tears the session down while the arbiter runs.  The runs are those in
\* which the messages come before any listener has timed out.
InitInput == InitBatch

NextInput ==
    \/ \E c \in 1..Len(clients) : WaitingForInputEvent(c)
    \/ \E i \in 1..Len(arbiters) : PromptPosted(i)
    \/ \E m \in MessageKinds :
          Len(arbiters) > 0 /\ MessagePosted(m.author, m.channel, m.bot)
    \/ \E i \in 1..Len(arbiters), w \in {"auth", "other"} : ArbiterWake(i, w)
    \/ \E i \in 1..Len(arbiters) : AcceptDone(i)
    \/ \E i \in 1..Len(arbiters) : AcceptFails(i)
    \/ \E i \in 1..Len(arbiters) : RejectDone(i)
    \/ \E c \in 1..Len(clients), ev \in {"agent_finished", "agent_error"} :
          TerminalEvent(c, ev)
    \/ \E h \in 1..Len(handlers) : HandlerNotified(h)
    \/ \E i \in 1..Len(cleanups) : CleanupResume(i)

SpecInput == InitInput /\ [][NextInput]_vars

\* A teardown of session key s has run to its end.
TeardownCompleted(s) ==
    /\ s \notin DOMAIN active_sessions
    /\ \E k \in 1..Len(cleanups) : cleanups[k].sid = s /\ cleanups[k].pc = "done"

\* C32 as stated: once the teardown of a session has completed, no arbiter
\* loop of that session is active any more: none is listening and none is in
\* its accept or reject branch.
C32_TeardownCancelsListeners ==
    \A i \in 1..Len(arbiters) :
        TeardownCompleted(clients[arbiters[i].client].sid)
           => arbiters[i].pc \notin {"waiting", "accepting", "rejecting"}

----------------------------------------------------------------------------
\* The arbiter acts on the outcome of a round: it is in its accept branch
\* (forward, reaction, confirmation) or in its reject branch (reaction,
\* notice).
Acting(a) == a.pc \in {"accepting", "rejecting"}

\* C33: while an arbiter acts on the outcome of a round, no listener of
\* that round is armed: the one that had not yielded was cancelled before
\* the forward, the reaction or the notice.
C33_PendingCancelledFirst ==
    \A i \in 1..Len(arbiters) :
        Acting(arbiters[i]) =>
            /\ arbiters[i].auth.st # "armed"
            /\ arbiters[i].other.st # "armed"

\* The only message so far is the owner's: the authorized listener took it
\* while the other one was still armed, and the arbiter is in its accept
\* branch, the input forwarded.
C33_Witness ==
    /\ Len(messages) = 1
    /\ messages[1].accepted = 1
    /\ arbiters[1].pc = "accepting"
    /\ Forwarded(1, 1)

----------------------------------------------------------------------------
\* C34 as stated: the expiry of the 1 s other-author listener alone never
\* ends a wait (no TimedOut, no stop command, no teardown before the long
\* timeout has run), and the expiry of the authorized-author timeout is
\* told apart from it: a wait in which nobody posted anything is TimedOut
\* once the long timeout has passed.
C34_ShortExpiryOnlyRearms ==
    \A i \in 1..Len(arbiters) :
        /\ arbiters[i].waited < user_input_timeout =>
              /\ arbiters[i].pc # "timedout"
              /\ Emits(arbiters[i].client, "stop_agent") = {}
              /\ ~TornDown(clients[arbiters[i].client].sid)
        /\ (arbiters[i].waited > user_input_timeout /\ messages = <<>>)
              => arbiters[i].pc = "timedout"

----------------------------------------------------------------------------
\* C35 as stated: in the step that ends a flush attempt of (session, kind),
\* the post having succeeded or failed, the batch of that session and kind
\* is gone: no pending items and no task reference are left behind.
C35_FlushEndClearsBatch ==
    [][\A kind \in Kinds : \A t \in 1..Len(tasks[kind]) :
          (tasks[kind][t].st = "posting" /\ tasks'[kind][t].st = "done")
             => tasks[kind][t].sid \notin DOMAIN BatchesOf(kind)']_vars

----------------------------------------------------------------------------
\* C36: an item that arrives while the timer of its (session, kind) is still
\* sleeping puts that timer off for good: after the arrival no older timer of
\* the (session, kind) sleeps, and no notification is built in that step.  A
\* timer that does fire is the one armed by the last item that arrived, so a
\* full delay has passed without a new item, and its flush ends with that item.
C36_Debounce ==
    [][\A kind \in Kinds :
          /\ \A t \in 1..Len(tasks[kind]) :
                (tasks[kind][t].st = "sleeping" /\ tasks'[kind][t].st = "posting") =>
                   /\ \A u \in TasksOf(tasks[kind][t].sid, kind) : u <= t
                   /\ tasks'[kind][t].content[Len(tasks'[kind][t].content)]
                         = arrived[kind][t].item
          /\ Len(arrived'[kind]) > Len(arrived[kind]) =>
                /\ \A t \in 1..Len(tasks[kind]) :
                      tasks[kind][t].sid = arrived'[kind][Len(arrived'[kind])].sid
                         => tasks'[kind][t].st # "sleeping"
                /\ tasks'[kind][Len(tasks'[kind])].st = "sleeping"
                /\ Len(tasks'[kind]) = Len(arrived'[kind])
                /\ notifications' = notifications]_vars

\* Three tool calls came each before the timer of the one before had fired:
\* the first two timers were cancelled in their sleep and built nothing, the
\* third fired and its one notification holds the three items.
C36_Witness ==
    /\ Len(ArrivedItems(1, "tool")) = 3
    /\ \A t \in {1, 2} : tasks.tool[t].st = "cancelled" /\ tasks.tool[t].content = <<>>
    /\ tasks.tool[3].content = ArrivedItems(1, "tool")
    /\ Cardinality(NotifsOf(1, "tool")) = 1

----------------------------------------------------------------------------
\* A user whose session ends and who starts the next one: session A of
\* user 1 runs, the server ends it (also with more than one terminal event),
\* and user 1 asks for a new session, one request after the other.
InitRestart == InitBatch

NextRestart ==
    \/ \E c \in 1..Len(clients), ev \in {"agent_finished", "agent_error"} :
          RepeatedTerminalEvent(c, ev)
    \/ \E h \in 1..Len(handlers) : HandlerNotified(h)
    \/ \E i \in 1..Len(cleanups) : CleanupResume(i)
    \/ /\ \A i \in 1..Len(starts) : starts[i].pc \in {"started", "rejected"}
       /\ \E ch \in Channels : StartRequest(1, ch, <<>>, <<>>)
    \/ \E i \in 1..Len(starts) : StartThreadCreated(i)
    \/ \E i \in 1..Len(starts) : StartUserAdded(i)
    \/ \E i \in 1..Len(starts) : StartRegistered(i)
    \/ \E i \in 1..Len(starts) : StartConnected(i)

SpecRestart == InitRestart /\ [][NextRestart]_vars

\* The session of start i is as its start left it: registered under its
\* user's key with its own link, thread and collector, the link connected.
Intact(i) ==
    LET u == starts[i].user
        c == starts[i].client
    IN  /\ u \in DOMAIN active_sessions /\ active_sessions[u] = c
        /\ u \in DOMAIN session_threads /\ session_threads[u] = clients[c].thread
        /\ u \in DOMAIN file_managers /\ file_managers[u] = clients[c].fm
        /\ clients[c].connected

\* C37 as stated: a session that was started and has received no terminal
\* event of its own is intact, whatever handlers and teardown calls of an
\* earlier session of the same user are still running.
C37_LaterSessionSurvives ==
    \A i \in 1..Len(starts) :
        (/\ starts[i].pc = "started"
         /\ \A h \in 1..Len(handlers) : handlers[h].client # starts[i].client)
        => Intact(i)

----------------------------------------------------------------------------
\* The arbiters started for link c, one per waiting_for_input event.
ArbitersOf(c) == {i \in 1..Len(arbiters) : arbiters[i].client = c}

\* C38 as stated: for one waiting_for_input request at most one user_input
\* is emitted, also when the reaction or the confirmation of the first
\* forwarded message fails.
C38_ForwardedAtMostOnce ==
    \A c \in 1..Len(clients) :
        Cardinality(ArbitersOf(c)) = 1 => Cardinality(Emits(c, "user_input")) <= 1

----------------------------------------------------------------------------
\* The server asks for input again before the earlier request was answered.
\* The runs are those in which the messages come before any listener has
\* timed out.
RepeatedInputRequest(c) ==
    /\ Len(arbiters) < MaxRepeats
    /\ StartArbiter(c)

InitAgain == InitBatch

NextAgain ==
    \/ \E c \in 1..Len(clients) : RepeatedInputRequest(c)
    \/ \E i \in 1..Len(arbiters) : PromptPosted(i)
    \/ \E m \in MessageKinds :
          Len(arbiters) > 0 /\ MessagePosted(m.author, m.channel, m.bot)
    \/ \E i \in 1..Len(arbiters), w \in {"auth", "other"} : ArbiterWake(i, w)
    \/ \E i \in 1..Len(arbiters) : AcceptDone(i)
    \/ \E i \in 1..Len(arbiters) : AcceptFails(i)
    \/ \E i \in 1..Len(arbiters) : RejectDone(i)

SpecAgain == InitAgain /\ [][NextAgain]_vars

\* C39 as stated: a session has at most one arbiter loop that is listening
\* or acting at a time, and no message is forwarded more than once.
C39_OneArbiterPerSession ==
    /\ \A c \in 1..Len(clients) :
          Cardinality({i \in ArbitersOf(c) : InWait(arbiters[i])}) <= 1
    /\ \A id \in 1..Len(messages) : messages[id].accepted <= 1

----------------------------------------------------------------------------
\* C40: at every suspension point the three session maps have the same keys:
\* a key is registered in active_sessions, session_threads and file_managers,
\* or in none of them.
C40_SameKeySets ==
    /\ DOMAIN active_sessions = DOMAIN session_threads
    /\ DOMAIN active_sessions = DOMAIN file_managers

\* Two teardown calls of session 1 overlapped: both were suspended closing
\* the link, one ran to its end and the other found the key gone; after
\* that the user's next session was registered.
C40_Witness ==
    /\ \E i, j \in 1..Len(cleanups) :
          /\ cleanups[i].sid = 1 /\ cleanups[i].pc = "done" /\ cleanups[i].client # None
          /\ cleanups[j].sid = 1 /\ cleanups[j].pc = "raised"
    /\ \E i \in 1..Len(starts) : starts[i].pc = "started" /\ Intact(i)

====
